---- MODULE Spec2Model ----
(***************************************************************************)
(* Model of the Claude Code MCP server's tool handlers: the bash tool and  *)
(* its command validation (server/tools.ts), the process executor          *)
(* (utils/bash.ts), readFile and grepSearch (utils/file.ts).               *)
(*                                                                         *)
(* Strings are sequences of one-character strings, so that split, trim,   *)
(* includes and the regular expressions are computed character by          *)
(* character.  An optional argument is the empty sequence when it is       *)
(* undefined and a one-element sequence when it is supplied.               *)
(***************************************************************************)
EXTENDS Integers, Sequences, FiniteSets, TLC

VARIABLES
  pc,    \* "idle", "running" while the handler awaits, "done" on return
  req,   \* the arguments of the current call
  io,    \* the external calls (exec, fs) the current call has made
  resp,  \* the response envelope the current call returned
  proc,  \* how the current call's child process settled
  disk   \* the file system: path -> entry

vars == <<pc, req, io, resp, proc, disk>>

---------------------------------------------------------------------------
(* Character classes of the JavaScript regular expressions and trim().     *)

WhiteSpace == {" ", "\t", "\n", "\r", "\f"}

LineTerminator == {"\n", "\r"}

Lower ==
  {"a","b","c","d","e","f","g","h","i","j","k","l","m",
   "n","o","p","q","r","s","t","u","v","w","x","y","z"}

Upper ==
  {"A","B","C","D","E","F","G","H","I","J","K","L","M",
   "N","O","P","Q","R","S","T","U","V","W","X","Y","Z"}

Digit == {"0","1","2","3","4","5","6","7","8","9"}

(* the character U+0060 (grave accent), written as a token *)
Backtick == "BACKTICK"

WordChar == Lower \cup Upper \cup Digit \cup {"_"}

Min2(a, b) == IF a <= b THEN a ELSE b

Max2(a, b) == IF a >= b THEN a ELSE b

MinOf(S) == CHOOSE x \in S : \A y \in S : x <= y

(* command.trim() === ''  (also true of the empty string) *)
IsBlank(s) == \A i \in 1..Len(s) : s[i] \in WhiteSpace

(* command.split(' ')[0]: the characters before the first U+0020 *)
SplitFirst(s) ==
  LET sp == {i \in 1..Len(s) : s[i] = " "}
  IN  IF sp = {} THEN s ELSE SubSeq(s, 1, MinOf(sp) - 1)

(* the word w occurs in s at position i *)
SubAt(s, i, w) ==
  /\ i >= 1
  /\ i + Len(w) - 1 <= Len(s)
  /\ \A k \in 1..Len(w) : s[i + k - 1] = w[k]

(* s.includes(w) *)
Includes(s, w) == \E i \in 1..(Len(s) - Len(w) + 1) : SubAt(s, i, w)

(* no line terminator in s[a..b]: what ".*" can cross *)
NoLT(s, a, b) == \A k \in a..b : s[k] \notin LineTerminator

(* positions p reached after one or more white space characters from a *)
WsRunEnds(s, a) ==
  {p \in (a + 1)..(Len(s) + 1) : \A k \in a..(p - 1) : s[k] \in WhiteSpace}

(* an optional number is truthy when supplied and not 0 (zod rejects NaN) *)
Truthy(o) == Len(o) = 1 /\ o[1] # 0

---------------------------------------------------------------------------
(* The bash tool's deny-lists, in the order of the source.                 *)

bannedCommands ==
  << <<"c","u","r","l">>,
     <<"c","u","r","l","i","e">>,
     <<"w","g","e","t">>,
     <<"a","x","e","l">>,
     <<"a","r","i","a","2","c">>,
     <<"n","c">>,
     <<"n","e","t","c","a","t">>,
     <<"n","c","a","t">>,
     <<"t","e","l","n","e","t">>,
     <<"n","m","a","p">>,
     <<"w","i","r","e","s","h","a","r","k">>,
     <<"t","c","p","d","u","m","p">>,
     <<"i","p","t","a","b","l","e","s">>,
     <<"i","p","6","t","a","b","l","e","s">>,
     <<"u","f","w">>,
     <<"f","i","r","e","w","a","l","l","-","c","m","d">>,
     <<"l","y","n","x">>,
     <<"w","3","m">>,
     <<"l","i","n","k","s">>,
     <<"h","t","t","p","i","e">>,
     <<"x","h">>,
     <<"h","t","t","p","-","p","r","o","m","p","t">>,
     <<"c","h","r","o","m","e">>,
     <<"c","h","r","o","m","i","u","m">>,
     <<"f","i","r","e","f","o","x">>,
     <<"s","a","f","a","r","i">>,
     <<"o","p","e","r","a">>,
     <<"b","r","a","v","e">>,
     <<"e","d","g","e">>,
     <<"s","s","h">>,
     <<"s","c","p">>,
     <<"s","f","t","p">>,
     <<"f","t","p">>,
     <<"r","s","y","n","c">>,
     <<"r","c","p">>,
     <<"r","d","p">>,
     <<"r","d","e","s","k","t","o","p">>,
     <<"v","n","c">>,
     <<"t","e","a","m","v","i","e","w","e","r">>,
     <<"s","u","d","o">>,
     <<"s","u">>,
     <<"d","o","a","s">>,
     <<"c","h","o","w","n">>,
     <<"c","h","m","o","d">>,
     <<"c","h","g","r","p">>,
     <<"c","h","r","o","o","t">>,
     <<"m","o","u","n","t">>,
     <<"u","m","o","u","n","t">>,
     <<"m","k","f","s">>,
     <<"f","d","i","s","k">>,
     <<"p","a","r","t","e","d">>,
     <<"d","d">>,
     <<"m","k","s","w","a","p">>,
     <<"s","w","a","p","o","n">>,
     <<"s","w","a","p","o","f","f">>,
     <<"k","i","l","l">>,
     <<"k","i","l","l","a","l","l">>,
     <<"p","k","i","l","l">>,
     <<"r","e","b","o","o","t">>,
     <<"s","h","u","t","d","o","w","n">>,
     <<"h","a","l","t">>,
     <<"p","o","w","e","r","o","f","f">>,
     <<"s","y","s","t","e","m","c","t","l">>,
     <<"s","e","r","v","i","c","e">>,
     <<"i","n","i","t">>,
     <<"c","r","o","n","t","a","b">>,
     <<"a","t">>,
     <<"a","l","i","a","s">>,
     <<"e","x","p","o","r","t">>,
     <<"s","o","u","r","c","e">>,
     <<"e","v","a","l">>,
     <<"e","x","e","c">>,
     <<"e","n","v">>,
     <<"s","e","t","e","n","v">>,
     <<"u","n","s","e","t">>,
     <<"a","p","t">>,
     <<"a","p","t","-","g","e","t">>,
     <<"a","p","t","i","t","u","d","e">>,
     <<"d","p","k","g">>,
     <<"y","u","m">>,
     <<"d","n","f">>,
     <<"r","p","m">>,
     <<"p","a","c","m","a","n">>,
     <<"b","r","e","w">>,
     <<"p","i","p">>,
     <<"p","i","p","3">>,
     <<"n","p","m">>,
     <<"y","a","r","n">>,
     <<"g","e","m">>,
     <<"c","a","r","g","o">>,
     <<"u","s","e","r","a","d","d">>,
     <<"u","s","e","r","d","e","l">>,
     <<"u","s","e","r","m","o","d">>,
     <<"g","r","o","u","p","a","d","d">>,
     <<"g","r","o","u","p","d","e","l">>,
     <<"g","r","o","u","p","m","o","d">>,
     <<"p","a","s","s","w","d">>,
     <<"n","o","h","u","p">>,
     <<"s","c","r","e","e","n">>,
     <<"t","m","u","x">>,
     <<"b","g">>,
     <<"f","g">>,
     <<"n","i","c","e">>,
     <<"i","o","n","i","c","e">>,
     <<"c","h","r","t">>,
     <<"t","i","m","e","o","u","t">>,
     <<"s","h","r","e","d">>,
     <<"w","i","p","e">>,
     <<"s","r","m">>,
     <<"r","m"," ","-","r","f">>,
     <<"m","k","f","i","f","o">> >>
networkCommands ==
  << <<"p","i","n","g">>,
     <<"t","r","a","c","e","r","o","u","t","e">>,
     <<"d","i","g">>,
     <<"n","s","l","o","o","k","u","p">>,
     <<"h","o","s","t">>,
     <<"w","h","o","i","s">>,
     <<"n","e","t","s","t","a","t">>,
     <<"s","s">>,
     <<"i","f","c","o","n","f","i","g">>,
     <<"i","p">> >>

---------------------------------------------------------------------------
(* The bash tool's dangerousPatterns, one operator per regular expression, *)
(* in the order of the source.                                              *)

(* some non-white-space character follows s[i] after optional white space: \s*\S+ *)
RedirAt(s, i) ==
  \E j \in (i + 1)..Len(s) :
    /\ s[j] \notin WhiteSpace
    /\ \A k \in (i + 1)..(j - 1) : s[k] \in WhiteSpace

(* s[i] opens a flag -[a-z]*X[a-z]*\s for a letter X of flags *)
FlagAt(s, i, flags) ==
  /\ s[i] = "-"
  /\ \E k \in (i + 2)..Len(s) :
       /\ s[k] \in WhiteSpace
       /\ \A m \in (i + 1)..(k - 1) : s[m] \in Lower
       /\ \E m \in (i + 1)..(k - 1) : s[m] \in flags

(* /[;&|]/ *)
PatSeparator(s) == \E i \in 1..Len(s) : s[i] \in {";", "&", "|"}

(* a backtick, any characters but line terminators, a backtick *)
PatBacktick(s) ==
  \E i \in 1..Len(s) :
    /\ s[i] = Backtick
    /\ \E j \in (i + 1)..Len(s) : s[j] = Backtick /\ NoLT(s, i + 1, j - 1)

(* /\$\(.*\)/ *)
PatSubstitution(s) ==
  \E i \in 1..Len(s) :
    /\ SubAt(s, i, <<"$", "(">>)
    /\ \E j \in (i + 2)..Len(s) : s[j] = ")" /\ NoLT(s, i + 2, j - 1)

(* />\s*\S+/ *)
PatRedirectOut(s) == \E i \in 1..Len(s) : s[i] = ">" /\ RedirAt(s, i)

(* /<\s*\S+/ *)
PatRedirectIn(s) == \E i \in 1..Len(s) : s[i] = "<" /\ RedirAt(s, i)

(* /2>\s*\S+/ *)
PatRedirectErr(s) ==
  \E i \in 1..Len(s) : SubAt(s, i, <<"2", ">">>) /\ RedirAt(s, i + 1)

(* /\$\{.*\}/ *)
PatParameter(s) ==
  \E i \in 1..Len(s) :
    /\ SubAt(s, i, <<"$", "{">>)
    /\ \E j \in (i + 2)..Len(s) : s[j] = "}" /\ NoLT(s, i + 2, j - 1)

(* /\$[a-zA-Z0-9_]+/ *)
PatVariable(s) ==
  \E i \in 1..(Len(s) - 1) : s[i] = "$" /\ s[i + 1] \in WordChar

(* /\s\*\s/ *)
PatAsterisk(s) ==
  \E i \in 1..(Len(s) - 2) :
    s[i] \in WhiteSpace /\ s[i + 1] = "*" /\ s[i + 2] \in WhiteSpace

(* /-[a-z]*r[a-z]*\s/ *)
PatRecursive(s) == \E i \in 1..Len(s) : FlagAt(s, i, {"r"})

(* /-[a-z]*f[a-z]*\s/ *)
PatForce(s) == \E i \in 1..Len(s) : FlagAt(s, i, {"f"})

(* positions reached from p by one group (-[a-z]*[fr][a-z]*\s+) *)
RmGroupEnds(s, p) ==
  IF p > Len(s) \/ s[p] # "-" THEN {}
  ELSE UNION { WsRunEnds(s, k) :
                 k \in {k \in (p + 2)..Len(s) :
                          /\ s[k] \in WhiteSpace
                          /\ \A m \in (p + 1)..(k - 1) : s[m] \in Lower
                          /\ \E m \in (p + 1)..(k - 1) : s[m] \in {"f", "r"}} }

RECURSIVE RmGroupClosure(_, _)
RmGroupClosure(s, P) ==
  LET Q == P \cup UNION { RmGroupEnds(s, p) : p \in P }
  IN  IF Q = P THEN P ELSE RmGroupClosure(s, Q)

(* /rm\s+(-[a-z]*[fr][a-z]*\s+)*\// *)
PatRmRoot(s) ==
  \E i \in 1..Len(s) :
    /\ SubAt(s, i, <<"r", "m">>)
    /\ \E p \in RmGroupClosure(s, WsRunEnds(s, i + 2)) :
         p <= Len(s) /\ s[p] = "/"

(* /dd\s+.*if=.*of=/ *)
PatDd(s) ==
  \E i \in 1..Len(s) :
    /\ SubAt(s, i, <<"d", "d">>)
    /\ \E p \in WsRunEnds(s, i + 2) :
         \E q \in p..Len(s) :
           /\ SubAt(s, q, <<"i", "f", "=">>)
           /\ NoLT(s, p, q - 1)
           /\ \E r \in (q + 3)..Len(s) :
                SubAt(s, r, <<"o", "f", "=">>) /\ NoLT(s, q + 3, r - 1)

(* w\s+.*FLAG\s+ for a word w and a two-character flag *)
OutputFlag(s, w, flag) ==
  \E i \in 1..Len(s) :
    /\ SubAt(s, i, w)
    /\ \E p \in WsRunEnds(s, i + Len(w)) :
         \E q \in p..Len(s) :
           /\ SubAt(s, q, flag)
           /\ NoLT(s, p, q - 1)
           /\ q + 2 <= Len(s)
           /\ s[q + 2] \in WhiteSpace

(* /wget\s+.*-O\s+/ *)
PatWget(s) == OutputFlag(s, <<"w", "g", "e", "t">>, <<"-", "O">>)

(* /curl\s+.*-o\s+/ *)
PatCurl(s) == OutputFlag(s, <<"c", "u", "r", "l">>, <<"-", "o">>)

(* pattern.test(command) for the k-th entry of dangerousPatterns *)
dangerousPatterns(k, s) ==
  CASE k = 1  -> PatSeparator(s)
    [] k = 2  -> PatBacktick(s)
    [] k = 3  -> PatSubstitution(s)
    [] k = 4  -> PatRedirectOut(s)
    [] k = 5  -> PatRedirectIn(s)
    [] k = 6  -> PatRedirectErr(s)
    [] k = 7  -> PatParameter(s)
    [] k = 8  -> PatVariable(s)
    [] k = 9  -> PatAsterisk(s)
    [] k = 10 -> PatRecursive(s)
    [] k = 11 -> PatForce(s)
    [] k = 12 -> PatRmRoot(s)
    [] k = 13 -> PatDd(s)
    [] k = 14 -> PatWget(s)
    [] k = 15 -> PatCurl(s)

NumPatterns == 15

---------------------------------------------------------------------------
(* The bash tool handler: validation.                                      *)

MAX_COMMAND_LENGTH == 500

MAX_TIMEOUT == 600000

DEFAULT_TIMEOUT == 60000

MAX_OUTPUT_SIZE == 10485760

DEFAULT_OUTPUT_SIZE == 1048576

(* const baseCommand = command.split(' ')[0] *)
baseCommand(command) == SplitFirst(command)

(* bannedCommands.includes(baseCommand) *)
BannedExact(command) ==
  LET base == baseCommand(command)
  IN  \E k \in 1..Len(bannedCommands) : bannedCommands[k] = base

(* command.match(new RegExp('^' + word + '(\\s|$)')) *)
PrefixMatch(word, command) ==
  /\ SubAt(command, 1, word)
  /\ \/ Len(command) = Len(word)
     \/ command[Len(word) + 1] \in WhiteSpace

(* the first entry of a list that the command starts with, 0 when none *)
FirstPrefix(list, command) ==
  LET M == {k \in 1..Len(list) : PrefixMatch(list[k], command)}
  IN  IF M = {} THEN 0 ELSE MinOf(M)

(* the first dangerous pattern that the command matches, 0 when none *)
FirstDangerous(command) ==
  LET M == {k \in 1..NumPatterns : dangerousPatterns(k, command)}
  IN  IF M = {} THEN 0 ELSE MinOf(M)

(* timeout ? Math.min(timeout, MAX_TIMEOUT) : DEFAULT_TIMEOUT *)
validatedTimeout(timeout) ==
  IF Truthy(timeout) THEN Min2(timeout[1], MAX_TIMEOUT) ELSE DEFAULT_TIMEOUT

(* max_output ? Math.min(max_output, MAX_OUTPUT_SIZE) : DEFAULT_OUTPUT_SIZE *)
validatedMaxOutput(max_output) ==
  IF Truthy(max_output) THEN Min2(max_output[1], MAX_OUTPUT_SIZE)
  ELSE DEFAULT_OUTPUT_SIZE

(* allow_network !== true *)
NetworkRestricted(allow_network) == allow_network # <<TRUE>>

(* command.trim() === '' without the trim: only the empty string *)
IsEmptyCommand_NoTrim(command) == Len(command) = 0

(* !command || command.trim() === '' *)
IsEmptyCommand(command) == IsBlank(command)

Verdict(k, a) == [kind |-> k, arg |-> a]

(* the length check moved up, right after the empty check *)
BashValidate_LengthFirst(command, allow_network) ==
  LET banned    == FirstPrefix(bannedCommands, command)
      dangerous == FirstDangerous(command)
      network   == FirstPrefix(networkCommands, command)
  IN  IF IsEmptyCommand(command) THEN Verdict("EmptyCommand", <<>>)
      ELSE IF Len(command) > MAX_COMMAND_LENGTH
        THEN Verdict("CommandTooLong", Len(command))
      ELSE IF BannedExact(command)
        THEN Verdict("BannedCommand", baseCommand(command))
      ELSE IF banned # 0
        THEN Verdict("BannedCommand", bannedCommands[banned])
      ELSE IF dangerous # 0
        THEN Verdict("DangerousPattern", dangerous)
      ELSE IF NetworkRestricted(allow_network) /\ network # 0
        THEN Verdict("NetworkRequiresOptIn", networkCommands[network])
      ELSE Verdict("Accept", <<>>)

(* a validator with memory: while a child process of any call runs, it   *)
(* refuses every command                                                  *)
BashValidate_OneAtATime(command, allow_network) ==
  LET banned    == FirstPrefix(bannedCommands, command)
      dangerous == FirstDangerous(command)
      network   == FirstPrefix(networkCommands, command)
  IN  IF IsEmptyCommand(command) THEN Verdict("EmptyCommand", <<>>)
      ELSE IF \E c \in DOMAIN pc : pc[c] = "running"
        THEN Verdict("CommandTooLong", Len(command))
      ELSE IF BannedExact(command)
        THEN Verdict("BannedCommand", baseCommand(command))
      ELSE IF banned # 0
        THEN Verdict("BannedCommand", bannedCommands[banned])
      ELSE IF dangerous # 0
        THEN Verdict("DangerousPattern", dangerous)
      ELSE IF Len(command) > MAX_COMMAND_LENGTH
        THEN Verdict("CommandTooLong", Len(command))
      ELSE IF NetworkRestricted(allow_network) /\ network # 0
        THEN Verdict("NetworkRequiresOptIn", networkCommands[network])
      ELSE Verdict("Accept", <<>>)

(* allow_network switching off the pattern and length checks as well *)
BashValidate_AllowSkipsChecks(command, allow_network) ==
  LET banned    == FirstPrefix(bannedCommands, command)
      dangerous == FirstDangerous(command)
      network   == FirstPrefix(networkCommands, command)
  IN  IF IsEmptyCommand(command) THEN Verdict("EmptyCommand", <<>>)
      ELSE IF BannedExact(command)
        THEN Verdict("BannedCommand", baseCommand(command))
      ELSE IF banned # 0
        THEN Verdict("BannedCommand", bannedCommands[banned])
      ELSE IF ~NetworkRestricted(allow_network) THEN Verdict("Accept", <<>>)
      ELSE IF dangerous # 0
        THEN Verdict("DangerousPattern", dangerous)
      ELSE IF Len(command) > MAX_COMMAND_LENGTH
        THEN Verdict("CommandTooLong", Len(command))
      ELSE IF network # 0
        THEN Verdict("NetworkRequiresOptIn", networkCommands[network])
      ELSE Verdict("Accept", <<>>)

(* The checks of the handler in the order of the source; the first that   *)
(* fires returns its error, and "Accept" means executeCommand is called.  *)
BashValidate(command, allow_network) ==
  LET banned    == FirstPrefix(bannedCommands, command)
      dangerous == FirstDangerous(command)
      network   == FirstPrefix(networkCommands, command)
  IN  IF IsEmptyCommand(command) THEN Verdict("EmptyCommand", <<>>)
      ELSE IF BannedExact(command)
        THEN Verdict("BannedCommand", baseCommand(command))
      ELSE IF banned # 0
        THEN Verdict("BannedCommand", bannedCommands[banned])
      ELSE IF dangerous # 0
        THEN Verdict("DangerousPattern", dangerous)
      ELSE IF Len(command) > MAX_COMMAND_LENGTH
        THEN Verdict("CommandTooLong", Len(command))
      ELSE IF NetworkRestricted(allow_network) /\ network # 0
        THEN Verdict("NetworkRequiresOptIn", networkCommands[network])
      ELSE Verdict("Accept", <<>>)

---------------------------------------------------------------------------
(* executeCommand (utils/bash.ts) and the child process.                   *)

(* the limits capped by the default values instead of the maxima *)
ExecOptions_DefaultCap(timeout, maxOutput) ==
  [timeout   |-> IF Truthy(timeout) THEN Min2(timeout[1], DEFAULT_TIMEOUT)
                 ELSE DEFAULT_TIMEOUT,
   maxBuffer |-> IF Truthy(maxOutput)
                 THEN Min2(maxOutput[1], DEFAULT_OUTPUT_SIZE)
                 ELSE DEFAULT_OUTPUT_SIZE]

(* the options object handed to exec: both limits are clamped once more *)
ExecOptions(timeout, maxOutput) ==
  [timeout   |-> IF Truthy(timeout) THEN Min2(timeout[1], MAX_TIMEOUT)
                 ELSE DEFAULT_TIMEOUT,
   maxBuffer |-> IF Truthy(maxOutput) THEN Min2(maxOutput[1], MAX_OUTPUT_SIZE)
                 ELSE DEFAULT_OUTPUT_SIZE]

TimeoutWord == <<"t","i","m","e","o","u","t">>

Stdouts == {<<>>, <<"o","k","\n">>}

Stderrs == {<<>>, <<"w">>, TimeoutWord}

(* How the promisified exec settles.  "exit" with code 0 resolves; every  *)
(* other outcome rejects with an error carrying code, signal and stderr.   *)
(* exec refuses a negative timeout, then a negative maxBuffer, without     *)
(* spawning ("option"; the text of the first refusal names the timeout).   *)
(* A child that writes more than maxBuffer bytes to stdout or stderr is    *)
(* killed ("maxBuffer"), so an exit carries at most maxBuffer bytes of     *)
(* each.                                                                   *)
ExecOutcomes(options) ==
  IF options.timeout < 0
  THEN [kind : {"option"}, code : {0}, signal : {""},
        stdout : {<<>>}, stderr : {TimeoutWord}]
  ELSE IF options.maxBuffer < 0
  THEN [kind : {"option"}, code : {0}, signal : {""},
        stdout : {<<>>}, stderr : {<<>>}]
  ELSE {o \in [kind : {"exit"}, code : {0, 1}, signal : {""},
               stdout : Stdouts, stderr : Stderrs] :
          /\ Len(o.stdout) <= options.maxBuffer
          /\ Len(o.stderr) <= options.maxBuffer}
  \cup [kind : {"signal"}, code : {0}, signal : {"SIGKILL"},
        stdout : {<<>>}, stderr : {<<>>}]
  \cup [kind : {"timeout"}, code : {0}, signal : {"SIGTERM"},
        stdout : {<<>>}, stderr : {<<>>}]
  \cup [kind : {"maxBuffer"}, code : {0}, signal : {""},
        stdout : {<<>>}, stderr : {<<>>}]

(* detailedMessage.includes('timeout'): the message quotes the command,   *)
(* stderr and the error's own message; none of its fixed words has it.    *)
MessageIncludesTimeout(command, outcome) ==
  \/ Includes(command, TimeoutWord)
  \/ Includes(outcome.stderr, TimeoutWord)

Response(e, k, a) == [isError |-> e, kind |-> k, arg |-> a]

NoResponse == Response(FALSE, "none", <<>>)

(* the handler failing every command that wrote to standard error *)
BashRespond_StderrFails(command, timeout, outcome) ==
  IF outcome.kind = "exit" /\ outcome.code = 0 /\ outcome.stderr = <<>>
  THEN Response(FALSE, "Success", outcome.stdout)
  ELSE Response(TRUE, "ExecutionError", outcome.kind)

(* the handler after await executeCommand(...) settles *)
BashRespond(command, timeout, outcome) ==
  IF outcome.kind = "exit" /\ outcome.code = 0
  THEN Response(FALSE, "Success", outcome.stdout)
  ELSE IF MessageIncludesTimeout(command, outcome)
  THEN Response(TRUE, "TimedOut", validatedTimeout(timeout))
  ELSE Response(TRUE, "ExecutionError", outcome.kind)

---------------------------------------------------------------------------
(* The calls the model makes.                                              *)

MaxPieces == 3

MaxOver == 2

Pieces ==
  { <<"n","c">>, <<"i","p">>, <<"l","s">>, <<" ">>, <<"\t">>, <<"\n">>,
    <<";">>, <<"|">>, <<"&">>, <<Backtick>>, <<"$","(">>, <<")">> }

RECURSIVE Concats(_)
Concats(k) ==
  IF k = 0 THEN {<<>>}
  ELSE Concats(k - 1) \cup {c \o p : c \in Concats(k - 1), p \in Pieces}

Repeat(ch, n) == [i \in 1..n |-> ch]

(* the beginnings of the commands that are continued with 500 letters *)
LongHeads ==
  { <<>>, <<"l">>, <<" ">>, <<"l","s"," ">>, <<"n","c"," ">>, <<"n","c","\t">>,
    <<"i","p"," ">>, <<";">>, <<"l","s"," ","|"," ">>, <<"n","c"," ",";">> }

(* commands built from the pieces; commands of 500 letters and more; and *)
(* a few fixed ones: 501 blanks, the two-word deny-list entry, flags, a   *)
(* substitution over two lines, the word "timeout" as an argument         *)
Commands ==
       Concats(MaxPieces)
  \cup {h \o Repeat("a", MAX_COMMAND_LENGTH) : h \in LongHeads}
  \cup { Repeat(" ", MAX_COMMAND_LENGTH + 1),
         <<"r","m"," ","-","r","f">>,
         <<"r","m"," ","-","r","f"," ","/">>,
         <<"l","s"," ","-","r"," ","x">>,
         <<"i","p"," ","-","f"," ","x">>,
         <<"l","s"," ","$","(","n","c","\n",")">>,
         <<"l","s"," ">> \o TimeoutWord }

NumberArgs(max) ==
  {<<>>} \cup {<<v>> : v \in {-1, 0, 1, max - 1, max}}
         \cup {<<max + d>> : d \in 1..MaxOver}

AllowArgs == {<<>>, <<FALSE>>, <<TRUE>>}

BashRequests ==
       [tool : {"bash"}, command : Commands, timeout : {<<>>},
        max_output : {<<>>}, allow_network : {<<>>, <<TRUE>>}]
  \cup [tool : {"bash"}, command : {<<"l","s">>, <<"i","p">>, <<"n","c">>},
        timeout : NumberArgs(MAX_TIMEOUT),
        max_output : NumberArgs(MAX_OUTPUT_SIZE),
        allow_network : AllowArgs]

---------------------------------------------------------------------------
(* The bash tool as a state machine.                                       *)

NoRequest == [tool |-> "none"]

NoOutcome == [kind |-> "none"]

EmptyDisk == <<>>

Init ==
  /\ pc = "idle"
  /\ req = NoRequest
  /\ io = <<>>
  /\ resp = NoResponse
  /\ proc = NoOutcome
  /\ disk = EmptyDisk

(* A call of the bash tool up to its first await: either an error is      *)
(* returned, or executeCommand hands the command and options to exec.      *)
BashCall(r) ==
  /\ pc = "idle"
  /\ req' = r
  /\ LET v == BashValidate(r.command, r.allow_network)
     IN  IF v.kind = "Accept"
         THEN /\ pc' = "running"
              /\ io' = << [op      |-> "exec",
                           command |-> r.command,
                           options |-> ExecOptions(
                                         <<validatedTimeout(r.timeout)>>,
                                         <<validatedMaxOutput(r.max_output)>>)] >>
              /\ resp' = NoResponse
         ELSE /\ pc' = "done"
              /\ io' = <<>>
              /\ resp' = Response(TRUE, v.kind, v.arg)
  /\ UNCHANGED <<proc, disk>>

(* The child process settles and the handler returns its response. *)
BashExit(outcome) ==
  /\ pc = "running"
  /\ req.tool = "bash"
  /\ outcome \in ExecOutcomes(io[1].options)
  /\ pc' = "done"
  /\ resp' = BashRespond(req.command, req.timeout, outcome)
  /\ proc' = outcome
  /\ UNCHANGED <<req, io, disk>>

(* The response is sent and everything the call created is discarded:   *)
(* no entity outlives a call.                                             *)
Discard ==
  /\ pc = "done"
  /\ pc' = "idle"
  /\ req' = NoRequest
  /\ io' = <<>>
  /\ resp' = NoResponse
  /\ proc' = NoOutcome
  /\ UNCHANGED disk

Next ==
  \/ pc = "idle" /\ \E r \in BashRequests : BashCall(r)
  \/ pc = "running" /\ \E o \in ExecOutcomes(io[1].options) : BashExit(o)
  \/ Discard

Spec == Init /\ [][Next]_vars

---------------------------------------------------------------------------
(* Properties of the bash tool.                                            *)

(* the first white-space-delimited token of a command, <<>> when none *)
FirstToken(s) ==
  LET nz == {i \in 1..Len(s) : s[i] \notin WhiteSpace}
  IN  IF nz = {} THEN <<>>
      ELSE LET a  == MinOf(nz)
               ws == {i \in a..Len(s) : s[i] \in WhiteSpace}
           IN  SubSeq(s, a, IF ws = {} THEN Len(s) ELSE MinOf(ws) - 1)

BannedNames == {bannedCommands[k] : k \in 1..Len(bannedCommands)}

NetworkNames == {networkCommands[k] : k \in 1..Len(networkCommands)}

BashCalled == pc \in {"running", "done"} /\ req.tool = "bash"

Rejected(kind) ==
  pc = "done" /\ resp.isError /\ resp.kind = kind /\ io = <<>>

(* C1: a bash call whose first white-space-delimited token is in the      *)
(* deny-list returns isError with the banned-command error naming that    *)
(* token, and no child process is spawned for it.                          *)
C1_BannedBaseTokenNeverSpawned ==
  (BashCalled /\ FirstToken(req.command) \in BannedNames)
    => (Rejected("BannedCommand") /\ resp.arg = FirstToken(req.command))

(* C2: a bash call whose command contains ";", "|", a backtick or         *)
(* "$(" ... ")" returns isError with the dangerous-pattern error whatever *)
(* the base command is, and the command is not executed.                   *)
C2_MetacharactersAlwaysDangerous ==
  (/\ BashCalled
   /\ \/ \E i \in 1..Len(req.command) :
           req.command[i] \in {";", "|", Backtick}
      \/ \E i \in 1..Len(req.command) :
           /\ SubAt(req.command, i, <<"$", "(">>)
           /\ \E j \in (i + 2)..Len(req.command) : req.command[j] = ")")
    => Rejected("DangerousPattern")

(* C3: an empty or white-space-only command is rejected with the          *)
(* empty-command error before any other check (also when it is longer    *)
(* than the length ceiling), and no process is spawned.                    *)
C3_BlankCommandRejectedFirst ==
  (BashCalled /\ \A i \in 1..Len(req.command) : req.command[i] \in WhiteSpace)
    => Rejected("EmptyCommand")

C3_Witness ==
  /\ BashCalled
  /\ Len(req.command) > MAX_COMMAND_LENGTH
  /\ \A i \in 1..Len(req.command) : req.command[i] \in WhiteSpace
  /\ Rejected("EmptyCommand")

Spawned == Len(io) = 1 /\ io[1].op = "exec"

(* the call passed every check of the validator *)
Accepted == BashValidate(req.command, req.allow_network).kind = "Accept"

(* C4: an accepted command with a requested timeout above 600000 ms is    *)
(* run, not rejected, and the timeout handed to exec is exactly 600000.    *)
C4_OversizedTimeoutClamped ==
  (BashCalled /\ Len(req.timeout) = 1 /\ req.timeout[1] > 600000 /\ Accepted)
    => (Spawned /\ io[1].options.timeout = 600000)

C4_Witness ==
  /\ BashCalled
  /\ Len(req.timeout) = 1
  /\ req.timeout[1] > 600000
  /\ Spawned
  /\ io[1].options.timeout = 600000

InRangeOrDefault(arg, used, max, default) ==
  /\ used \in 1..max
  /\ arg = <<>> => used = default
  /\ (Len(arg) = 1 /\ arg[1] \in 1..max) => used = arg[1]

(* C5: for an accepted request and any timeoutMs and maxOutputBytes,      *)
(* zero and negative values included, the limits handed to the executor   *)
(* are timeoutMs in [1, 600000] (60000 when not supplied) and             *)
(* maxOutputBytes in [1, 10485760] (1048576 when not supplied), and a     *)
(* supplied value in range is used unchanged.                              *)
C5_LimitsWithinRange ==
  (BashCalled /\ Spawned)
    => /\ InRangeOrDefault(req.timeout, io[1].options.timeout,
                           600000, 60000)
       /\ InRangeOrDefault(req.max_output, io[1].options.maxBuffer,
                           10485760, 1048576)

NotBlank(s) == \E i \in 1..Len(s) : s[i] \notin WhiteSpace

(* C6, as stated: the length check comes second, so every non-blank       *)
(* command longer than 500 characters is rejected with the                *)
(* command-too-long error, also when it starts with a banned command or   *)
(* contains a dangerous pattern.                                           *)
C6_TooLongWinsOverBannedAndDangerous ==
  (BashCalled /\ NotBlank(req.command) /\ Len(req.command) > 500)
    => Rejected("CommandTooLong")

IsBanned(s) == BannedExact(s) \/ FirstPrefix(bannedCommands, s) # 0

(* C6, amended: the checks are applied, first match winning, in the       *)
(* order empty, banned base token, banned prefix, dangerous pattern,      *)
(* length, network opt-in.  A command longer than 500 characters is       *)
(* always rejected and never spawned, with the command-too-long error     *)
(* exactly when it is not blank, not banned and has no dangerous pattern. *)
C6_CheckOrder ==
  BashCalled =>
    LET c         == req.command
        banned    == IsBanned(c)
        dangerous == FirstDangerous(c) # 0
        network   == /\ req.allow_network # <<TRUE>>
                     /\ FirstPrefix(networkCommands, c) # 0
    IN  /\ Len(c) > 500 => (pc = "done" /\ resp.isError /\ io = <<>>)
        /\ IF ~NotBlank(c) THEN Rejected("EmptyCommand")
           ELSE IF banned THEN Rejected("BannedCommand")
           ELSE IF dangerous THEN Rejected("DangerousPattern")
           ELSE IF Len(c) > 500 THEN Rejected("CommandTooLong")
           ELSE IF network THEN Rejected("NetworkRequiresOptIn")
           ELSE TRUE

C6_Witness ==
  /\ BashCalled
  /\ Len(req.command) > 500
  /\ IsBanned(req.command)
  /\ Rejected("BannedCommand")

(* C7: unless allowNetwork is exactly true, a command whose base command  *)
(* is a network-diagnostic command is rejected with the                   *)
(* network-requires-opt-in error naming it and is not spawned; with       *)
(* allowNetwork true the same command, when it passes the earlier         *)
(* checks, is accepted and executed.                                       *)
C7_NetworkCommandsNeedOptIn ==
  (BashCalled /\ FirstToken(req.command) \in NetworkNames)
    => IF req.allow_network # <<TRUE>>
       THEN Rejected("NetworkRequiresOptIn")
            /\ resp.arg = FirstToken(req.command)
       ELSE (/\ ~IsBanned(req.command)
             /\ FirstDangerous(req.command) = 0
             /\ Len(req.command) <= 500) => Spawned

---------------------------------------------------------------------------
(* readFile (utils/file.ts) and the readFile tool.                         *)

(* content.split('\n') *)
RECURSIVE SplitLines(_)
SplitLines(s) ==
  LET nl == {i \in 1..Len(s) : s[i] = "\n"}
  IN  IF nl = {} THEN <<s>>
      ELSE <<SubSeq(s, 1, MinOf(nl) - 1)>>
             \o SplitLines(SubSeq(s, MinOf(nl) + 1, Len(s)))

(* lines.join('\n') *)
RECURSIVE JoinLines(_)
JoinLines(lines) ==
  IF Len(lines) = 0 THEN <<>>
  ELSE IF Len(lines) = 1 THEN lines[1]
  ELSE lines[1] \o <<"\n">> \o JoinLines(Tail(lines))

(* lines.slice(start, end) for 0 <= start *)
Slice(lines, start, end) == SubSeq(lines, start + 1, Min2(end, Len(lines)))

NoEntry == [kind |-> "none", readable |-> FALSE, content |-> <<>>]

(* the entry at a path; a path the disk does not hold does not exist *)
Entry(d, path) == IF path \in DOMAIN d THEN d[path] ELSE NoEntry

Result(o, k, v) == [ok |-> o, kind |-> k, value |-> v]

(* readFile without the range check: an offset past the end is sliced *)
readFile_NoRangeCheck(d, filePath, offset, limit) ==
  LET e == Entry(d, filePath)
  IN  IF Len(filePath) = 0 THEN Result(FALSE, "PathRequired", <<>>)
      ELSE IF e.kind = "none" \/ ~e.readable
        THEN Result(FALSE, "NotReadable", <<>>)
      ELSE IF e.kind # "file" THEN Result(FALSE, "ReadFailed", <<>>)
      ELSE IF Truthy(offset) \/ Truthy(limit)
        THEN LET lines     == SplitLines(e.content)
                 startLine == IF Truthy(offset) THEN offset[1] - 1 ELSE 0
                 endLine   == IF Truthy(limit) THEN startLine + limit[1]
                              ELSE Len(lines)
             IN  Result(TRUE, "Text",
                        JoinLines(Slice(lines, Max2(0, startLine), endLine)))
      ELSE Result(TRUE, "Text", e.content)

(* readFile with the limit counted from the first line of the file, not   *)
(* from the start line                                                    *)
readFile_LimitFromTop(d, filePath, offset, limit) ==
  LET e == Entry(d, filePath)
  IN  IF Len(filePath) = 0 THEN Result(FALSE, "PathRequired", <<>>)
      ELSE IF e.kind = "none" \/ ~e.readable
        THEN Result(FALSE, "NotReadable", <<>>)
      ELSE IF e.kind # "file" THEN Result(FALSE, "ReadFailed", <<>>)
      ELSE IF Truthy(offset) \/ Truthy(limit)
        THEN LET lines     == SplitLines(e.content)
                 startLine == IF Truthy(offset) THEN Max2(0, offset[1] - 1)
                              ELSE 0
                 endLine   == IF Truthy(limit)
                              THEN Min2(Len(lines), limit[1])
                              ELSE Len(lines)
             IN  IF startLine >= Len(lines)
                 THEN Result(FALSE, "OffsetOutOfRange", Len(lines))
                 ELSE Result(TRUE, "Text",
                             JoinLines(Slice(lines, startLine, endLine)))
      ELSE Result(TRUE, "Text", e.content)

(* readFile: fs.access, fs.readFile, then the slice of lines when an      *)
(* offset or a limit is given; every failure is a FileSystemError.        *)
readFile(d, filePath, offset, limit) ==
  LET e == Entry(d, filePath)
  IN  IF Len(filePath) = 0 THEN Result(FALSE, "PathRequired", <<>>)
      ELSE IF e.kind = "none" \/ ~e.readable
        THEN Result(FALSE, "NotReadable", <<>>)
      ELSE IF e.kind # "file" THEN Result(FALSE, "ReadFailed", <<>>)
      ELSE IF Truthy(offset) \/ Truthy(limit)
        THEN LET lines     == SplitLines(e.content)
                 startLine == IF Truthy(offset) THEN Max2(0, offset[1] - 1)
                              ELSE 0
                 endLine   == IF Truthy(limit)
                              THEN Min2(Len(lines), startLine + limit[1])
                              ELSE Len(lines)
             IN  IF startLine >= Len(lines)
                 THEN Result(FALSE, "OffsetOutOfRange", Len(lines))
                 ELSE Result(TRUE, "Text",
                             JoinLines(Slice(lines, startLine, endLine)))
      ELSE Result(TRUE, "Text", e.content)

(* the fs calls readFile makes *)
readFileIo(d, filePath) ==
  IF Len(filePath) = 0 THEN <<>>
  ELSE IF Entry(d, filePath).kind = "none" \/ ~Entry(d, filePath).readable
    THEN << [op |-> "fs.access", path |-> filePath] >>
  ELSE << [op |-> "fs.access", path |-> filePath],
          [op |-> "fs.readFile", path |-> filePath] >>

(* the readFile tool handler: input checks, then readFile *)
ReadFileTool(d, file_path, offset, limit) ==
  IF IsBlank(file_path) THEN Response(TRUE, "EmptyPath", <<>>)
  ELSE IF Len(offset) = 1 /\ offset[1] < 1
    THEN Response(TRUE, "OffsetTooSmall", <<>>)
  ELSE IF Len(limit) = 1 /\ limit[1] < 1
    THEN Response(TRUE, "LimitTooSmall", <<>>)
  ELSE LET r == readFile(d, file_path, offset, limit)
       IN  Response(~r.ok, r.kind, r.value)

MaxContent == 3

MaxLine == 5

ContentChars == {"a", "b", "\n"}

RECURSIVE Contents(_)
Contents(k) ==
  IF k = 0 THEN {<<>>}
  ELSE Contents(k - 1)
         \cup {c \o <<x>> : c \in Contents(k - 1), x \in ContentChars}

ThePath == <<"/", "f">>

(* the disks: the path holds a readable file, an unreadable file, a      *)
(* directory, or nothing                                                  *)
Disks ==
       {[p \in {ThePath} |-> [kind |-> "file", readable |-> TRUE, content |-> c]] :
          c \in Contents(MaxContent)}
  \cup { [p \in {ThePath} |-> [kind |-> "file", readable |-> FALSE, content |-> <<"a">>]],
         [p \in {ThePath} |-> [kind |-> "dir", readable |-> TRUE, content |-> <<>>]],
         EmptyDisk }

LineArgs(max) == {<<>>} \cup {<<v>> : v \in -1..max}

ReadFileRequests ==
  [tool : {"readFile"}, file_path : {<<>>, <<" ">>, ThePath},
   offset : LineArgs(MaxLine), limit : LineArgs(MaxLine - 2)]

InitFile ==
  /\ pc = "idle"
  /\ req = NoRequest
  /\ io = <<>>
  /\ resp = NoResponse
  /\ proc = NoOutcome
  /\ disk \in Disks

(* a call of the readFile tool; no other call runs between its awaits *)
ReadFileCall(r) ==
  /\ pc = "idle"
  /\ req' = r
  /\ pc' = "done"
  /\ resp' = ReadFileTool(disk, r.file_path, r.offset, r.limit)
  /\ io' = IF ReadFileTool(disk, r.file_path, r.offset, r.limit).kind
                \in {"EmptyPath", "OffsetTooSmall", "LimitTooSmall"}
           THEN <<>>
           ELSE readFileIo(disk, r.file_path)
  /\ UNCHANGED <<proc, disk>>

NextFile ==
  \/ pc = "idle" /\ \E r \in ReadFileRequests : ReadFileCall(r)
  \/ Discard

SpecFile == InitFile /\ [][NextFile]_vars

(* the number of lines of a text: one more than its newline characters *)
LineCount(text) == Cardinality({i \in 1..Len(text) : text[i] = "\n"}) + 1

ReadsReadableFile ==
  /\ pc = "done"
  /\ req.tool = "readFile"
  /\ Entry(disk, req.file_path).kind = "file"
  /\ Entry(disk, req.file_path).readable

(* C8: readFile with an offset greater than the file's line count never  *)
(* returns a successful empty or truncated text, whatever the content and *)
(* the limit: the response is an error, and it is the                     *)
(* offset-out-of-range error for every limit a request may carry (absent  *)
(* or at least 1; a smaller limit is refused by the input check).         *)
C8_OffsetPastEndIsError ==
  (/\ ReadsReadableFile
   /\ Len(req.offset) = 1
   /\ req.offset[1] > LineCount(disk[req.file_path].content))
    => /\ resp.isError
       /\ (req.limit = <<>> \/ req.limit[1] >= 1)
            => resp.kind = "OffsetOutOfRange"

C8_Witness ==
  /\ ReadsReadableFile
  /\ Len(req.offset) = 1
  /\ Len(req.limit) = 1
  /\ LineCount(disk[req.file_path].content) = 2
  /\ req.offset[1] = 3
  /\ resp.isError
  /\ resp.kind = "OffsetOutOfRange"

---------------------------------------------------------------------------
(* grepSearch (utils/file.ts) and the grep tool.                           *)

(* the scan of a character class from position i: the position of the    *)
(* closing bracket, 0 when the class is not terminated                    *)
RECURSIVE ClassEnd(_, _)
ClassEnd(p, i) ==
  IF i > Len(p) THEN 0
  ELSE IF p[i] = "\\" THEN ClassEnd(p, i + 2)
  ELSE IF p[i] = "]" THEN i
  ELSE ClassEnd(p, i + 1)

(* the pattern from position i on is legal, inside depth open groups,    *)
(* atom telling whether a quantifier may follow                           *)
RECURSIVE RegExpScan(_, _, _, _)
RegExpScan(p, i, depth, atom) ==
  IF i > Len(p) THEN depth = 0
  ELSE IF p[i] = "\\" THEN i < Len(p) /\ RegExpScan(p, i + 2, depth, TRUE)
  ELSE IF p[i] = "["
    THEN ClassEnd(p, i + 1) # 0
         /\ RegExpScan(p, ClassEnd(p, i + 1) + 1, depth, TRUE)
  ELSE IF p[i] = "(" THEN RegExpScan(p, i + 1, depth + 1, FALSE)
  ELSE IF p[i] = ")" THEN depth > 0 /\ RegExpScan(p, i + 1, depth - 1, TRUE)
  ELSE IF p[i] = "*" THEN atom /\ RegExpScan(p, i + 1, depth, FALSE)
  ELSE RegExpScan(p, i + 1, depth, TRUE)

(* new RegExp(pattern) does not throw, for patterns over PatternChars *)
IsValidRegExp(pattern) == RegExpScan(pattern, 1, 0, FALSE)

(* the handler without the new RegExp(pattern) check *)
GrepValidate_NoRegExp(pattern) ==
  IF IsBlank(pattern) THEN "EmptyPattern" ELSE "Accept"

(* the grep tool's input checks *)
GrepValidate(pattern) ==
  IF IsBlank(pattern) THEN "EmptyPattern"
  ELSE IF ~IsValidRegExp(pattern) THEN "InvalidPattern"
  ELSE "Accept"

EscapedChars == WhiteSpace \cup {"\"", "'", "$", Backtick, "\\"}

(* text.replace(/(["\s'$`\\])/g, '\\$1') *)
RECURSIVE Escape(_)
Escape(text) ==
  IF Len(text) = 0 THEN <<>>
  ELSE (IF Head(text) \in EscapedChars THEN <<"\\", Head(text)>>
        ELSE <<Head(text)>>) \o Escape(Tail(text))

Cwd == <<"/", "c", "w", "d">>

(* the command line grepSearch hands to exec *)
GrepCommand(pattern, path, include) ==
  <<"g","r","e","p"," ","-","r"," ">>
    \o (IF Len(include) = 1 /\ Len(Escape(include[1])) > 0
        THEN <<"-","-","i","n","c","l","u","d","e","=","\"">>
               \o Escape(include[1]) \o <<"\"">>
        ELSE <<>>)
    \o <<" ", "\"">> \o Escape(pattern) \o <<"\"", " ">>
    \o (IF Len(path) = 1 THEN path[1] ELSE Cwd)

NoMatchesFound ==
  <<"N","o"," ","m","a","t","c","h","e","s"," ","f","o","u","n","d">>

(* grepSearch rethrowing every failure of grep *)
GrepSettle_NoSentinel(outcome) ==
  IF outcome.kind = "exit" /\ outcome.code = 0
  THEN Result(TRUE, "Matches", outcome.stdout)
  ELSE Result(FALSE, "CommandExecutionError", outcome.kind)

(* grepSearch once the promisified exec settles: stdout on exit 0, the   *)
(* sentinel on exit code 1 with empty stdout, an error otherwise          *)
GrepSettle(outcome) ==
  IF outcome.kind = "exit" /\ outcome.code = 0
  THEN Result(TRUE, "Matches", outcome.stdout)
  ELSE IF outcome.code = 1 /\ outcome.stdout = <<>>
  THEN Result(TRUE, "NoMatches", NoMatchesFound)
  ELSE Result(FALSE, "CommandExecutionError", outcome.kind)

(* how grep's exec may settle; code 0 stands for null unless kind = exit *)
GrepOutcomes ==
       [kind : {"exit"}, code : {0, 1, 2}, signal : {""},
        stdout : {<<>>, <<"f",":","a","\n">>}, stderr : {<<>>, <<"w">>}]
  \cup [kind : {"signal"}, code : {0}, signal : {"SIGKILL"},
        stdout : {<<>>}, stderr : {<<>>}]
  \cup [kind : {"maxBuffer"}, code : {0}, signal : {""},
        stdout : {<<"f",":","a","\n">>}, stderr : {<<>>}]

MaxPattern == 3

PatternChars == {"a", "(", ")", "[", "]", "*", "\\", " "}

RECURSIVE Patterns(_)
Patterns(k) ==
  IF k = 0 THEN {<<>>}
  ELSE Patterns(k - 1)
         \cup {c \o <<x>> : c \in Patterns(k - 1), x \in PatternChars}

GrepRequests ==
  [tool : {"grep"}, pattern : Patterns(MaxPattern),
   path : {<<>>, << <<"/","d">> >>},
   include : {<<>>, << <<"*",".","j","s">> >>}]

(* a call of the grep tool up to its await: an input error, or grep is   *)
(* handed to exec                                                         *)
GrepCall(r) ==
  /\ pc = "idle"
  /\ req' = r
  /\ IF GrepValidate(r.pattern) = "Accept"
     THEN /\ pc' = "running"
          /\ io' = << [op      |-> "exec",
                       command |-> GrepCommand(r.pattern, r.path, r.include),
                       options |-> <<>>] >>
          /\ resp' = NoResponse
     ELSE /\ pc' = "done"
          /\ io' = <<>>
          /\ resp' = Response(TRUE, GrepValidate(r.pattern), <<>>)
  /\ UNCHANGED <<proc, disk>>

(* grep settles and the handler returns its response *)
GrepExit(outcome) ==
  /\ pc = "running"
  /\ req.tool = "grep"
  /\ pc' = "done"
  /\ proc' = outcome
  /\ resp' = LET r == GrepSettle(outcome)
             IN  IF r.ok THEN Response(FALSE, "Success", r.value)
                 ELSE Response(TRUE, "ExecutionError", r.value)
  /\ UNCHANGED <<req, io, disk>>

NextGrep ==
  \/ pc = "idle" /\ \E r \in GrepRequests : GrepCall(r)
  \/ pc = "running" /\ \E o \in GrepOutcomes : GrepExit(o)
  \/ Discard

SpecGrep == Init /\ [][NextGrep]_vars

GrepDone == pc = "done" /\ req.tool = "grep"

(* C9: a grep search that runs and matches nothing (grep exits with      *)
(* status 1 and no output) returns a success whose payload is the        *)
(* sentinel "No matches found"; it is never reported as an error.         *)
C9_NoMatchIsSuccessSentinel ==
  (GrepDone /\ proc.kind = "exit" /\ proc.code = 1 /\ proc.stdout = <<>>)
    => (~resp.isError /\ resp.arg = NoMatchesFound)

C9_Witness ==
  /\ GrepDone
  /\ proc.kind = "exit"
  /\ proc.code = 1
  /\ proc.stdout = <<>>
  /\ ~resp.isError
  /\ resp.arg = NoMatchesFound

(* C10: a grep search whose pattern is not a legal regular expression    *)
(* returns isError with the invalid-pattern error, and is rejected       *)
(* before any search process is spawned or the file system is touched.   *)
C10_InvalidPatternRejectedBeforeSearch ==
  (req.tool = "grep" /\ pc \in {"running", "done"}
     /\ ~IsValidRegExp(req.pattern))
    => (pc = "done" /\ resp.isError /\ resp.kind = "InvalidPattern"
          /\ io = <<>> /\ proc = NoOutcome)

C10_Witness ==
  /\ GrepDone
  /\ req.pattern = <<"[">>
  /\ resp.isError
  /\ resp.kind = "InvalidPattern"
  /\ io = <<>>

---------------------------------------------------------------------------
(* The file system as the fs calls of utils/file.ts see it.                *)

(* path.join(dirPath, file) for a directory path and one name *)
PathJoin(dir, name) ==
  IF Len(dir) > 0 /\ dir[Len(dir)] = "/" THEN dir \o name
  ELSE dir \o <<"/">> \o name

(* the path without its trailing slash, as the kernel resolves it *)
StripSlash(path) ==
  IF Len(path) > 1 /\ path[Len(path)] = "/"
  THEN SubSeq(path, 1, Len(path) - 1)
  ELSE path

MaxOf(S) == CHOOSE x \in S : \A y \in S : x >= y

(* path.dirname(filePath) *)
DirName(path) ==
  LET p  == StripSlash(path)
      sl == {i \in 1..Len(p) : p[i] = "/"}
  IN  IF sl = {} THEN <<".">>
      ELSE IF MaxOf(sl) = 1 THEN <<"/">>
      ELSE SubSeq(p, 1, MaxOf(sl) - 1)

(* the root and the working directory exist and are not listed on disk *)
IsAnchor(path) == path \in {<<"/">>, <<".">>}

(* stats.mtime.toISOString(): every entry of the disks carries this time *)
Epoch == "1970-01-01T00:00:00.000Z"

NoStats == [ok |-> FALSE, isDirectory |-> FALSE, size |-> 0, modified |-> ""]

(* fs.stat(path): follows links, so a dangling link has no stats; a     *)
(* file named with a trailing slash is ENOTDIR                            *)
Stat(d, path) ==
  LET e == Entry(d, StripSlash(path))
  IN  IF IsAnchor(path)
      THEN [ok |-> TRUE, isDirectory |-> TRUE, size |-> 0, modified |-> Epoch]
      ELSE IF e.kind = "dir"
      THEN [ok |-> TRUE, isDirectory |-> TRUE, size |-> 0, modified |-> Epoch]
      ELSE IF e.kind = "file" /\ StripSlash(path) = path
      THEN [ok |-> TRUE, isDirectory |-> FALSE, size |-> Len(e.content),
            modified |-> Epoch]
      ELSE NoStats

(* the names a directory can hold, in the order readdir reports them *)
ChildNames == << <<"a">>, <<"b">>, <<"x">> >>

(* fs.readdir(dirPath): every name under the directory, links included *)
Readdir(d, dirPath) ==
  SelectSeq(ChildNames,
            LAMBDA n : PathJoin(StripSlash(dirPath), n) \in DOMAIN d)

(* one element of fileDetails: the stats of a child, or the error that  *)
(* stat raised for it                                                     *)
FileDetail(d, dirPath, file) ==
  LET filePath == PathJoin(dirPath, file)
      stats    == Stat(d, filePath)
  IN  IF stats.ok
      THEN [name |-> file, path |-> filePath,
            isDirectory |-> stats.isDirectory, size |-> stats.size,
            modified |-> stats.modified]
      ELSE [name |-> file, path |-> filePath, error |-> "ENOENT"]

(* listFiles as it was before the per-entry try/catch: one failing stat *)
(* rejects Promise.all and the whole listing fails                        *)
listFiles_NoTolerance(d, dirPath) ==
  LET st    == Stat(d, dirPath)
      files == Readdir(d, dirPath)
  IN  IF Len(dirPath) = 0 THEN Result(FALSE, "PathRequired", <<>>)
      ELSE IF ~st.ok \/ ~st.isDirectory
        THEN Result(FALSE, "NotAccessible", <<>>)
      ELSE IF ~Entry(d, StripSlash(dirPath)).readable
        THEN Result(FALSE, "ListFailed", <<>>)
      ELSE IF \E i \in 1..Len(files) : ~Stat(d, PathJoin(dirPath, files[i])).ok
        THEN Result(FALSE, "ListFailed", <<>>)
      ELSE Result(TRUE, "Entries",
                  [i \in 1..Len(files) |-> FileDetail(d, dirPath, files[i])])

(* listFiles: fs.stat of the directory, fs.readdir, then fs.stat of     *)
(* every child with its own try/catch                                     *)
listFiles(d, dirPath) ==
  LET st    == Stat(d, dirPath)
      files == Readdir(d, dirPath)
  IN  IF Len(dirPath) = 0 THEN Result(FALSE, "PathRequired", <<>>)
      ELSE IF ~st.ok \/ ~st.isDirectory
        THEN Result(FALSE, "NotAccessible", <<>>)
      ELSE IF ~Entry(d, StripSlash(dirPath)).readable
        THEN Result(FALSE, "ListFailed", <<>>)
      ELSE Result(TRUE, "Entries",
                  [i \in 1..Len(files) |-> FileDetail(d, dirPath, files[i])])

(* the fs calls listFiles makes *)
listFilesIo(d, dirPath) ==
  LET st    == Stat(d, dirPath)
      files == Readdir(d, dirPath)
  IN  IF Len(dirPath) = 0 THEN <<>>
      ELSE IF ~st.ok \/ ~st.isDirectory
        THEN << [op |-> "fs.stat", path |-> dirPath] >>
      ELSE IF ~Entry(d, StripSlash(dirPath)).readable
        THEN << [op |-> "fs.stat", path |-> dirPath],
                [op |-> "fs.readdir", path |-> dirPath] >>
      ELSE << [op |-> "fs.stat", path |-> dirPath],
              [op |-> "fs.readdir", path |-> dirPath] >>
             \o [i \in 1..Len(files) |->
                   [op |-> "fs.stat", path |-> PathJoin(dirPath, files[i])]]

(* the listFiles tool handler: the input check, then listFiles *)
ListFilesTool(d, path) ==
  IF IsBlank(path) THEN Response(TRUE, "EmptyPath", <<>>)
  ELSE LET r == listFiles(d, path)
       IN  Response(~r.ok, r.kind, r.value)

---------------------------------------------------------------------------
(* writeFile (utils/file.ts) and the editFile tool.                        *)

(* UTF-16 code units that are half of a surrogate pair, and the          *)
(* replacement character U+FFFD                                           *)
HighSurrogate == "HIGH_SURROGATE"

LowSurrogate == "LOW_SURROGATE"

Replacement == "U+FFFD"

(* the 'utf-8' encoding of a string, one element per encoded character: *)
(* a surrogate pair is one four-byte character, an unpaired surrogate is *)
(* written as the bytes of U+FFFD                                         *)
RECURSIVE Utf8Encode(_)
Utf8Encode(s) ==
  IF Len(s) = 0 THEN <<>>
  ELSE IF s[1] = HighSurrogate /\ Len(s) >= 2 /\ s[2] = LowSurrogate
    THEN << <<HighSurrogate, LowSurrogate>> >> \o Utf8Encode(SubSeq(s, 3, Len(s)))
  ELSE IF s[1] \in {HighSurrogate, LowSurrogate}
    THEN << <<Replacement>> >> \o Utf8Encode(Tail(s))
  ELSE << <<s[1]>> >> \o Utf8Encode(Tail(s))

(* the string that decoding the bytes gives back *)
RECURSIVE Utf8Decode(_)
Utf8Decode(b) ==
  IF Len(b) = 0 THEN <<>> ELSE b[1] \o Utf8Decode(Tail(b))

(* the content written without its final line breaks *)
Stored_TrimEnd(content) ==
  LET keep == {i \in 1..Len(content) : content[i] # "\n"}
  IN  IF keep = {} THEN <<>> ELSE SubSeq(content, 1, MaxOf(keep))

(* what a file written with content holds, read as 'utf-8' text *)
Stored(content) == Utf8Decode(Utf8Encode(content))

(* an entry of the disk; a file may be written when its mode allows it *)
FsEntry(k, r, w, c) ==
  [kind |-> k, readable |-> r, writable |-> w, content |-> c]

(* fs.mkdir(directory, {recursive: true}): the directory exists          *)
(* afterwards, or an existing file is in the way                          *)
RECURSIVE MkdirP(_, _)
MkdirP(d, directory) ==
  LET e == Entry(d, StripSlash(directory))
  IN  IF IsAnchor(directory) \/ e.kind = "dir" THEN [ok |-> TRUE, disk |-> d]
      ELSE IF e.kind # "none" THEN [ok |-> FALSE, disk |-> d]
      ELSE LET up == MkdirP(d, DirName(directory))
           IN  IF ~up.ok THEN up
               ELSE IF ~IsAnchor(DirName(directory))
                       /\ ~up.disk[StripSlash(DirName(directory))].writable
                 THEN [ok |-> FALSE, disk |-> up.disk]
               ELSE [ok |-> TRUE,
                     disk |-> [p \in DOMAIN up.disk \cup {StripSlash(directory)} |->
                                 IF p = StripSlash(directory)
                                 THEN FsEntry("dir", TRUE, TRUE, <<>>)
                                 ELSE up.disk[p]]]

(* fs.writeFile opened without truncation (flag 'r+'): the content is    *)
(* written over the start of an existing file and the rest of it stays   *)
FsWriteFile_NoTruncate(d, filePath, content) ==
  LET e      == Entry(d, filePath)
      parent == DirName(filePath)
  IN  IF filePath # StripSlash(filePath) \/ e.kind = "dir"
        THEN [ok |-> FALSE, disk |-> d]
      ELSE IF e.kind = "file"
        THEN IF e.writable
             THEN [ok |-> TRUE,
                   disk |-> [d EXCEPT ![filePath].content =
                               Stored(content)
                                 \o SubSeq(e.content, Len(Stored(content)) + 1,
                                           Len(e.content))]]
             ELSE [ok |-> FALSE, disk |-> d]
      ELSE IF ~IsAnchor(parent) /\ ~Entry(d, parent).writable
        THEN [ok |-> FALSE, disk |-> d]
      ELSE [ok |-> TRUE,
            disk |-> [p \in DOMAIN d \cup {filePath} |->
                        IF p = filePath
                        THEN FsEntry("file", TRUE, TRUE, Stored(content))
                        ELSE d[p]]]

(* fs.writeFile(filePath, content, 'utf-8'): creates the file or         *)
(* replaces its content; the mode of an existing file is kept             *)
FsWriteFile(d, filePath, content) ==
  LET e      == Entry(d, filePath)
      parent == DirName(filePath)
  IN  IF filePath # StripSlash(filePath) \/ e.kind = "dir"
        THEN [ok |-> FALSE, disk |-> d]
      ELSE IF e.kind = "file"
        THEN IF e.writable
             THEN [ok |-> TRUE,
                   disk |-> [d EXCEPT ![filePath].content = Stored(content)]]
             ELSE [ok |-> FALSE, disk |-> d]
      ELSE IF ~IsAnchor(parent) /\ ~Entry(d, parent).writable
        THEN [ok |-> FALSE, disk |-> d]
      ELSE [ok |-> TRUE,
            disk |-> [p \in DOMAIN d \cup {filePath} |->
                        IF p = filePath
                        THEN FsEntry("file", TRUE, TRUE, Stored(content))
                        ELSE d[p]]]

(* writeFile: the path check, mkdir of the parent, then the write; the  *)
(* directories mkdir made stay when the write fails                       *)
writeFile(d, filePath, content) ==
  IF Len(filePath) = 0
  THEN [result |-> Result(FALSE, "PathRequired", <<>>), disk |-> d]
  ELSE LET mk == MkdirP(d, DirName(filePath))
       IN  IF ~mk.ok
           THEN [result |-> Result(FALSE, "MkdirFailed", <<>>), disk |-> mk.disk]
           ELSE LET wr == FsWriteFile(mk.disk, filePath, content)
                IN  IF wr.ok
                    THEN [result |-> Result(TRUE, "Updated", filePath),
                          disk |-> wr.disk]
                    ELSE [result |-> Result(FALSE, "WriteFailed", <<>>),
                          disk |-> wr.disk]

(* the editFile tool handler: the input checks, then writeFile; content *)
(* is <<>> when the argument is undefined and <<text>> otherwise         *)
EditFileTool(d, file_path, content) ==
  IF IsBlank(file_path)
  THEN [resp |-> Response(TRUE, "EmptyPath", <<>>), disk |-> d, io |-> <<>>]
  ELSE IF content = <<>>
  THEN [resp |-> Response(TRUE, "ContentRequired", <<>>), disk |-> d,
        io |-> <<>>]
  ELSE LET w == writeFile(d, file_path, content[1])
       IN  [resp |-> Response(~w.result.ok, w.result.kind, w.result.value),
            disk |-> w.disk,
            io   |-> << [op |-> "fs.mkdir", path |-> DirName(file_path)] >>
                     \o IF w.result.kind = "MkdirFailed" THEN <<>>
                        ELSE << [op |-> "fs.writeFile", path |-> file_path] >>]

---------------------------------------------------------------------------
(* The file and directory resources (server/resources.ts).                *)

(* the directory resource with its own readdir and stat calls, as it    *)
(* was before it used listFiles                                           *)
DirectoryResource_Inline(d, path) ==
  IF path = <<>> \/ Len(path[1]) = 0
  THEN Response(TRUE, "PathRequired", <<>>)
  ELSE LET r == listFiles_NoTolerance(d, path[1])
       IN  Response(~r.ok, r.kind, r.value)

(* the file resource: variables.path is <<>> when the URI gives none *)
FileResource(d, path) ==
  IF path = <<>> \/ Len(path[1]) = 0
  THEN Response(TRUE, "PathRequired", <<>>)
  ELSE LET r == readFile(d, path[1], <<>>, <<>>)
       IN  Response(~r.ok, r.kind, r.value)

(* the directory resource *)
DirectoryResource(d, path) ==
  IF path = <<>> \/ Len(path[1]) = 0
  THEN Response(TRUE, "PathRequired", <<>>)
  ELSE LET r == listFiles(d, path[1])
       IN  Response(~r.ok, r.kind, r.value)

---------------------------------------------------------------------------
(* The file-system calls the model makes.                                  *)

MaxText == 1

TextChars == {"a", "\n", HighSurrogate, LowSurrogate}

RECURSIVE Texts(_)
Texts(k) ==
  IF k = 0 THEN {<<>>}
  ELSE Texts(k - 1) \cup {t \o <<x>> : t \in Texts(k - 1), x \in TextChars}

(* the contents written: short texts, a surrogate pair, a final newline *)
WrittenTexts ==
  Texts(MaxText) \cup {<<HighSurrogate, LowSurrogate>>, <<"a", "\n">>}

DirPath == <<"/", "d">>

PathA == <<"/", "d", "/", "a">>

PathB == <<"/", "d", "/", "b">>

PathUnderA == <<"/", "d", "/", "a", "/", "x">>

NewDir == <<"/", "n">>

PathNew == <<"/", "n", "/", "x">>

Missing == <<"/", "z">>

(* a disk with the directory /d, its child a and, when eb is given, its *)
(* child b                                                                *)
FsDisk(ed, ea, eb) ==
  [p \in {DirPath, PathA} \cup (IF eb = <<>> THEN {} ELSE {PathB}) |->
     IF p = DirPath THEN ed ELSE IF p = PathA THEN ea ELSE eb[1]]

(* /d readable or not, writable or not; a is a file (readable,          *)
(* write-only or read-only) or a dangling link; b is absent, a           *)
(* directory or a dangling link                                           *)
FsDisks ==
  { FsDisk(ed, ea, eb) :
      ed \in { FsEntry("dir", TRUE, TRUE, <<>>),
               FsEntry("dir", FALSE, TRUE, <<>>),
               FsEntry("dir", TRUE, FALSE, <<>>) },
      ea \in { FsEntry("file", TRUE, TRUE, <<>>),
               FsEntry("file", TRUE, TRUE, <<"a", "\n", "a">>),
               FsEntry("file", FALSE, TRUE, <<"a">>),
               FsEntry("file", TRUE, FALSE, <<"a">>),
               FsEntry("dangling", FALSE, FALSE, <<>>) },
      eb \in { <<>>,
               <<FsEntry("dir", TRUE, TRUE, <<>>)>>,
               <<FsEntry("dangling", FALSE, FALSE, <<>>)>> } }

OptionalPaths(S) == {<<>>} \cup {<<p>> : p \in S}

ListFilesRequests ==
  [tool : {"listFiles"},
   path : {<<>>, <<" ">>, DirPath, DirPath \o <<"/">>, PathA, PathB,
           NewDir, Missing}]

FileResourceRequests ==
  [tool : {"fileResource"},
   path : OptionalPaths({<<>>, <<" ">>, PathA, PathB, DirPath, PathNew,
                         Missing})]

DirectoryResourceRequests ==
  [tool : {"directoryResource"},
   path : OptionalPaths({<<>>, <<" ">>, DirPath, DirPath \o <<"/">>, PathA,
                         PathB, NewDir, Missing})]

EditFileRequests ==
  [tool : {"editFile"},
   file_path : {<<>>, <<" ">>, PathA, PathUnderA, PathNew, DirPath,
                DirPath \o <<"/">>},
   content : OptionalPaths(WrittenTexts)]

FsReadRequests ==
  [tool : {"readFile"}, file_path : {<<>>, PathA, PathNew},
   offset : {<<>>, <<2>>}, limit : {<<>>}]

InitFs ==
  /\ pc = "idle"
  /\ req = NoRequest
  /\ io = <<>>
  /\ resp = NoResponse
  /\ proc = NoOutcome
  /\ disk \in FsDisks

(* a call of the listFiles tool *)
ListFilesCall(r) ==
  /\ pc = "idle"
  /\ req' = r
  /\ pc' = "done"
  /\ resp' = ListFilesTool(disk, r.path)
  /\ io' = IF IsBlank(r.path) THEN <<>> ELSE listFilesIo(disk, r.path)
  /\ UNCHANGED <<proc, disk>>

(* a read of the file resource *)
FileResourceCall(r) ==
  /\ pc = "idle"
  /\ req' = r
  /\ pc' = "done"
  /\ resp' = FileResource(disk, r.path)
  /\ io' = IF r.path = <<>> THEN <<>> ELSE readFileIo(disk, r.path[1])
  /\ UNCHANGED <<proc, disk>>

(* a read of the directory resource *)
DirectoryResourceCall(r) ==
  /\ pc = "idle"
  /\ req' = r
  /\ pc' = "done"
  /\ resp' = DirectoryResource(disk, r.path)
  /\ io' = IF r.path = <<>> THEN <<>> ELSE listFilesIo(disk, r.path[1])
  /\ UNCHANGED <<proc, disk>>

(* a call of the editFile tool: the only call that changes the disk *)
EditFileCall(r) ==
  /\ pc = "idle"
  /\ req' = r
  /\ pc' = "done"
  /\ LET e == EditFileTool(disk, r.file_path, r.content)
     IN  /\ resp' = e.resp
         /\ disk' = e.disk
         /\ io' = e.io
  /\ UNCHANGED proc

NextFs ==
  \/ pc = "idle" /\ \E r \in ListFilesRequests : ListFilesCall(r)
  \/ pc = "idle" /\ \E r \in FileResourceRequests : FileResourceCall(r)
  \/ pc = "idle" /\ \E r \in DirectoryResourceRequests : DirectoryResourceCall(r)
  \/ pc = "idle" /\ \E r \in EditFileRequests : EditFileCall(r)
  \/ pc = "idle" /\ \E r \in FsReadRequests : ReadFileCall(r)
  \/ Discard

SpecFs == InitFs /\ [][NextFs]_vars

---------------------------------------------------------------------------
(* Properties of the file-system tools and resources.                      *)

(* the paths of the disk directly under a directory *)
ChildrenOf(d, dir) == {p \in DOMAIN d : p # dir /\ DirName(p) = dir}

ListsDirectory ==
  /\ pc = "done"
  /\ req.tool = "listFiles"
  /\ Entry(disk, StripSlash(req.path)).kind = "dir"
  /\ Entry(disk, StripSlash(req.path)).readable

FullEntryFields == {"name", "path", "isDirectory", "size", "modified"}

ErrorEntryFields == {"name", "path", "error"}

(* C11: listFiles on an existing directory that can be read never fails  *)
(* as a whole because stat fails for some children: the response is a    *)
(* success with exactly one entry per child; a child whose stat failed   *)
(* (a dangling link) is an entry {name, path, error}, every other child  *)
(* has its full {name, path, isDirectory, size, modified} entry.          *)
C11_StatFailureIsPerEntry ==
  ListsDirectory =>
    LET dir      == StripSlash(req.path)
        children == ChildrenOf(disk, dir)
        entries  == resp.arg
    IN  /\ ~resp.isError
        /\ Len(entries) = Cardinality(children)
        /\ {entries[i].path : i \in 1..Len(entries)} = children
        /\ \A i \in 1..Len(entries) :
             LET e == entries[i]
                 c == disk[e.path]
             IN  /\ e.path = dir \o <<"/">> \o e.name
                 /\ IF c.kind = "dangling"
                    THEN DOMAIN e = ErrorEntryFields
                    ELSE /\ DOMAIN e = FullEntryFields
                         /\ e.isDirectory = (c.kind = "dir")
                         /\ e.size = Len(c.content)

C11_Witness ==
  /\ ListsDirectory
  /\ ~resp.isError
  /\ Len(resp.arg) = 2
  /\ DOMAIN resp.arg[1] = FullEntryFields
  /\ DOMAIN resp.arg[2] = ErrorEntryFields

WroteFile == pc = "done" /\ req.tool = "editFile" /\ ~resp.isError

(* no unpaired surrogate: every high surrogate is followed by a low one *)
(* and every low surrogate preceded by a high one                        *)
WellFormed(s) ==
  \A i \in 1..Len(s) :
    /\ s[i] = HighSurrogate => (i < Len(s) /\ s[i + 1] = LowSurrogate)
    /\ s[i] = LowSurrogate => (i > 1 /\ s[i - 1] = HighSurrogate)

(* C12, as stated: for every path and every content string, a           *)
(* successful writeFile(path, content) immediately followed by           *)
(* readFile(path) with no offset or limit returns exactly content.       *)
C12_WriteThenReadReturnsContent ==
  WroteFile =>
    readFile(disk, req.file_path, <<>>, <<>>)
      = Result(TRUE, "Text", req.content[1])

(* C12, amended: the round trip returns exactly content (the empty      *)
(* string and texts with or without a final newline included) when       *)
(* content is well-formed Unicode and the written file may be read by    *)
(* the server; an existing write-only file is written and then refused   *)
(* by readFile, and never read back with another text.                   *)
C12_RoundTripOfWellFormedText ==
  WroteFile =>
    LET r == readFile(disk, req.file_path, <<>>, <<>>)
    IN  /\ Entry(disk, req.file_path).kind = "file"
        /\ (WellFormed(req.content[1]) /\ Entry(disk, req.file_path).readable)
             => r = Result(TRUE, "Text", req.content[1])
        /\ ~Entry(disk, req.file_path).readable => ~r.ok

C12_Witness ==
  /\ WroteFile
  /\ req.file_path = PathNew
  /\ req.content = << <<"a", "\n">> >>
  /\ readFile(disk, PathNew, <<>>, <<>>) = Result(TRUE, "Text", <<"a", "\n">>)

---------------------------------------------------------------------------
(* searchGlob (utils/file.ts) and the searchGlob tool.                     *)

(* what the shell makes of text between double quotes: a backslash      *)
(* before $, backtick, double quote or backslash is removed              *)
RECURSIVE DoubleQuoted(_)
DoubleQuoted(text) ==
  IF Len(text) = 0 THEN <<>>
  ELSE IF text[1] = "\\" /\ Len(text) >= 2
          /\ text[2] \in {"$", Backtick, "\"", "\\"}
    THEN <<text[2]>> \o DoubleQuoted(SubSeq(text, 3, Len(text)))
  ELSE <<text[1]>> \o DoubleQuoted(Tail(text))

(* find -name: fnmatch of a name against a pattern with *, ? and        *)
(* backslash escapes                                                      *)
RECURSIVE FnMatch(_, _)
FnMatch(pat, name) ==
  IF Len(pat) = 0 THEN Len(name) = 0
  ELSE IF pat[1] = "*"
    THEN \E k \in 0..Len(name) :
           FnMatch(Tail(pat), SubSeq(name, k + 1, Len(name)))
  ELSE IF pat[1] = "\\" /\ Len(pat) >= 2
    THEN Len(name) > 0 /\ name[1] = pat[2]
           /\ FnMatch(SubSeq(pat, 3, Len(pat)), Tail(name))
  ELSE /\ Len(name) > 0
       /\ (pat[1] = "?" \/ pat[1] = name[1])
       /\ FnMatch(Tail(pat), Tail(name))

(* the last component of a path *)
BaseName(path) ==
  LET p  == StripSlash(path)
      sl == {i \in 1..Len(p) : p[i] = "/"}
  IN  IF sl = {} THEN p ELSE SubSeq(p, MaxOf(sl) + 1, Len(p))

(* path is root or lies under it *)
IsUnder(path, root) ==
  \/ path = root
  \/ /\ Len(path) > Len(root) + 1
     /\ SubSeq(path, 1, Len(root) + 1) = root \o <<"/">>

(* the order of the characters for sort *)
CharOrder == <<"\n", " ", "*", "/", "?", "a", "b", "d", "n", "x", "z">>

CharRank(c) == CHOOSE i \in 1..Len(CharOrder) : CharOrder[i] = c

RECURSIVE LineLess(_, _)
LineLess(a, b) ==
  IF Len(b) = 0 THEN FALSE
  ELSE IF Len(a) = 0 THEN TRUE
  ELSE IF a[1] # b[1] THEN CharRank(a[1]) < CharRank(b[1])
  ELSE LineLess(Tail(a), Tail(b))

(* sort: the lines in ascending order *)
RECURSIVE SortLines(_)
SortLines(S) ==
  IF S = {} THEN <<>>
  ELSE LET least == CHOOSE a \in S : \A b \in S \ {a} : LineLess(a, b)
       IN  <<least>> \o SortLines(S \ {least})

(* every line followed by a line break *)
RECURSIVE Terminated(_)
Terminated(lines) ==
  IF Len(lines) = 0 THEN <<>>
  ELSE lines[1] \o <<"\n">> \o Terminated(Tail(lines))

(* text.trim() *)
Trim(text) ==
  LET keep == {i \in 1..Len(text) : text[i] \notin WhiteSpace}
  IN  IF keep = {} THEN <<>> ELSE SubSeq(text, MinOf(keep), MaxOf(keep))

(* the working directory of the server: it exists and holds no file *)
(* of the disks                                                      *)
IsCwd(root) == root = Cwd \/ IsBlank(root)

(* find ROOT -type f -name PATTERN: the regular files under the root   *)
(* whose name matches, and find's own exit status; a root that does not *)
(* exist, or a directory that may not be read, is reported on stderr    *)
(* with exit status 1                                                    *)
Find(d, root, pat) ==
  LET r     == StripSlash(root)
      st    == Stat(d, root)
      files == {p \in DOMAIN d :
                  /\ IsUnder(p, r)
                  /\ d[p].kind = "file"
                  /\ FnMatch(pat, BaseName(p))
                  /\ \A q \in DOMAIN d :
                       (d[q].kind = "dir" /\ IsUnder(p, q) /\ IsUnder(q, r))
                         => d[q].readable}
      denied == \E q \in DOMAIN d :
                  d[q].kind = "dir" /\ IsUnder(q, r) /\ ~d[q].readable
  IN  IF IsCwd(root) THEN [code |-> 0, lines |-> {}, stderr |-> <<>>]
      ELSE IF ~st.ok /\ Entry(d, r).kind # "dangling"
        THEN [code |-> 1, lines |-> {}, stderr |-> <<"E","N","O","E","N","T">>]
      ELSE [code   |-> IF denied THEN 1 ELSE 0,
            lines  |-> files,
            stderr |-> IF denied THEN <<"E","A","C","C","E","S">> ELSE <<>>]

(* the command line searchGlob hands to exec *)
GlobCommand(pattern, path) ==
  <<"f","i","n","d"," ">> \o (IF Len(path) = 1 THEN path[1] ELSE Cwd)
    \o <<" ","-","t","y","p","e"," ","f"," ","-","n","a","m","e"," ","\"">>
    \o Escape(pattern) \o <<"\""," ","|"," ","s","o","r","t">>

(* How exec of "find ... | sort" settles.  The shell reports the exit   *)
(* status of the last command of a pipeline, so the status is sort's, 0, *)
(* whatever find's was; find's status is kept in the field find.  The    *)
(* promise rejects when the output exceeds maxBuffer or the shell is     *)
(* killed.                                                                *)
GlobOutcomes(d, pattern, path) ==
  LET f == Find(d, IF Len(path) = 1 THEN path[1] ELSE Cwd,
                DoubleQuoted(Escape(pattern)))
  IN  { [kind |-> "exit", code |-> 0, signal |-> "", find |-> f.code,
         stdout |-> Terminated(SortLines(f.lines)), stderr |-> f.stderr],
        [kind |-> "maxBuffer", code |-> 0, signal |-> "", find |-> f.code,
         stdout |-> <<>>, stderr |-> <<>>],
        [kind |-> "signal", code |-> 0, signal |-> "SIGKILL", find |-> f.code,
         stdout |-> <<>>, stderr |-> <<>>] }

(* searchGlob once the promisified exec settles:                         *)
(* stdout.trim().split('\n').filter(Boolean), or a CommandExecutionError *)
GlobSettle(outcome) ==
  IF outcome.kind = "exit" /\ outcome.code = 0
  THEN Result(TRUE, "Paths",
              SelectSeq(SplitLines(Trim(outcome.stdout)),
                        LAMBDA l : Len(l) > 0))
  ELSE Result(FALSE, "CommandExecutionError", outcome.kind)

(* the searchGlob tool handler after await searchGlob *)
GlobRespond(outcome) ==
  LET r == GlobSettle(outcome)
  IN  IF ~r.ok THEN Response(TRUE, "ExecutionError", r.value)
      ELSE IF Len(r.value) = 0 THEN Response(FALSE, "NoFilesFound", <<>>)
      ELSE Response(FALSE, "Paths", r.value)

GlobPatterns == {<<>>, <<" ">>, <<"*">>, <<"a">>, <<"x">>, <<"?">>,
                 <<"\\", "a">>, <<"*", "a">>}

GlobRequests ==
  [tool : {"searchGlob"}, pattern : GlobPatterns,
   path : OptionalPaths({DirPath, DirPath \o <<"/">>, PathA, PathB, Missing})]

(* a call of the searchGlob tool up to await execPromise *)
GlobCall(r) ==
  /\ pc = "idle"
  /\ req' = r
  /\ IF IsBlank(r.pattern)
     THEN /\ pc' = "done"
          /\ io' = <<>>
          /\ resp' = Response(TRUE, "EmptyPattern", <<>>)
     ELSE /\ pc' = "running"
          /\ io' = << [op      |-> "exec",
                       command |-> GlobCommand(r.pattern, r.path),
                       options |-> <<>>] >>
          /\ resp' = NoResponse
  /\ UNCHANGED <<proc, disk>>

(* the pipeline settles and the handler returns its response *)
GlobExit(outcome) ==
  /\ pc = "running"
  /\ req.tool = "searchGlob"
  /\ outcome \in GlobOutcomes(disk, req.pattern, req.path)
  /\ pc' = "done"
  /\ proc' = outcome
  /\ resp' = GlobRespond(outcome)
  /\ UNCHANGED <<req, io, disk>>

NextGlob ==
  \/ pc = "idle" /\ \E r \in GlobRequests : GlobCall(r)
  \/ /\ pc = "running"
     /\ req.tool = "searchGlob"
     /\ \E o \in GlobOutcomes(disk, req.pattern, req.path) : GlobExit(o)
  \/ Discard

SpecGlob == InitFs /\ [][NextGlob]_vars

GlobDone == pc = "done" /\ req.tool = "searchGlob" /\ proc # NoOutcome

(* C13: searchGlob reports the no-matches success exactly when the      *)
(* search ran successfully (find exited with status 0, nothing killed    *)
(* it) and matched no file; a lookup failure, such as a search root      *)
(* that does not exist or cannot be traversed, is reported with          *)
(* isError: true and never as the no-matches success.                    *)
C13_NoMatchesOnlyWhenSearchRan ==
  GlobDone =>
    /\ (resp.kind = "NoFilesFound")
         <=> (/\ proc.kind = "exit"
              /\ proc.find = 0
              /\ proc.stdout = <<>>)
    /\ (proc.kind # "exit" \/ proc.find # 0) => resp.isError

---------------------------------------------------------------------------
(* The environment resource (server/resources.ts).                         *)

LowerLetters ==
  <<"a","b","c","d","e","f","g","h","i","j","k","l","m",
    "n","o","p","q","r","s","t","u","v","w","x","y","z">>

UpperLetters ==
  <<"A","B","C","D","E","F","G","H","I","J","K","L","M",
    "N","O","P","Q","R","S","T","U","V","W","X","Y","Z">>

(* key.toUpperCase() *)
ToUpperCase(s) ==
  [i \in 1..Len(s) |->
     IF \E k \in 1..26 : LowerLetters[k] = s[i]
     THEN UpperLetters[CHOOSE k \in 1..26 : LowerLetters[k] = s[i]]
     ELSE s[i]]

sensitiveKeys ==
  << <<"T","O","K","E","N">>, <<"K","E","Y">>, <<"S","E","C","R","E","T">>,
     <<"P","A","S","S","W","O","R","D">>,
     <<"C","R","E","D","E","N","T","I","A","L">>, <<"A","U","T","H">> >>

(* sensitiveKeys.some(sensitive => key.toUpperCase().includes(sensitive)) *)
IsSensitive(key) ==
  \E k \in 1..Len(sensitiveKeys) : Includes(ToUpperCase(key), sensitiveKeys[k])

Redacted == <<"[","R","E","D","A","C","T","E","D","]">>

(* the environment copied without any filter *)
filteredEnv_Unfiltered(env) ==
  [key \in {k \in DOMAIN env : Len(env[k]) > 0} |-> env[key]]

(* filteredEnv: a variable with an empty value is left out; the others  *)
(* keep their value or, under a sensitive name, get the marker           *)
filteredEnv(env) ==
  [key \in {k \in DOMAIN env : Len(env[k]) > 0} |->
     IF ~IsSensitive(key) THEN env[key] ELSE Redacted]

Unknown == <<"u","n","k","n","o","w","n">>

(* os.type() + ' ' + os.release() + ' ' + os.arch() *)
OsFallback == <<"L","i","n","u","x"," ","6"," ","x","6","4">>

(* (await executeCommand(...)).trim(), or the default when it throws *)
VersionOf(outcome, default) ==
  IF outcome.kind = "exit" /\ outcome.code = 0 THEN Trim(outcome.stdout)
  ELSE default

(* the handler with one try/catch around the three commands, as the      *)
(* older resources.ts has it: the first command that fails fails the     *)
(* whole snapshot                                                         *)
EnvironmentResource_OneTry(env, node, npm, os) ==
  IF \E o \in {node, npm, os} : ~(o.kind = "exit" /\ o.code = 0)
  THEN Response(TRUE, "CommandExecutionError", <<>>)
  ELSE Response(FALSE, "EnvInfo",
                [node |-> VersionOf(node, Unknown),
                 npm  |-> VersionOf(npm, Unknown),
                 os   |-> VersionOf(os, OsFallback),
                 env  |-> filteredEnv(env)])

(* the environment resource handler: three commands, each with its own  *)
(* try/catch, then the filtered copy of process.env                      *)
EnvironmentResource(env, node, npm, os) ==
  Response(FALSE, "EnvInfo",
           [node |-> VersionOf(node, Unknown),
            npm  |-> VersionOf(npm, Unknown),
            os   |-> VersionOf(os, OsFallback),
            env  |-> filteredEnv(env)])

MaxNames == 4

(* the names of the variables, the first MaxNames of which are used *)
EnvNames ==
  << <<"A","P","I","_","K","E","Y">>, <<"P","A","T","H">>,
     <<"m","y","_","t","o","k","e","n">>, <<"A","u","t","h","o","r">>,
     <<"H","O","M","E">> >>

EnvValues == {<<>>, <<"v">>, <<"w">>}

(* process.env: some of the names, each with a value, possibly empty *)
Envs ==
  UNION { [S -> EnvValues] :
            S \in SUBSET {EnvNames[i] : i \in 1..Min2(MaxNames, Len(EnvNames))} }

(* how one of the three commands settles *)
VersionOutcomes ==
  { [kind |-> "exit", code |-> 0, signal |-> "",
     stdout |-> <<"v","1","\n">>, stderr |-> <<>>],
    [kind |-> "exit", code |-> 127, signal |-> "",
     stdout |-> <<>>, stderr |-> <<"w">>] }

EnvironmentRequests == [tool : {"environmentResource"}, env : Envs]

(* a read of the environment resource; env is process.env at that time *)
EnvironmentResourceCall(r, node, npm, os) ==
  /\ pc = "idle"
  /\ req' = r
  /\ pc' = "done"
  /\ resp' = EnvironmentResource(r.env, node, npm, os)
  /\ io' = << [op |-> "exec", command |-> <<"n","o","d","e">>, outcome |-> node],
              [op |-> "exec", command |-> <<"n","p","m">>, outcome |-> npm],
              [op |-> "exec", command |-> <<"u","n","a","m","e">>, outcome |-> os] >>
  /\ UNCHANGED <<proc, disk>>

NextEnv ==
  \/ /\ pc = "idle"
     /\ \E r \in EnvironmentRequests :
          \E node \in VersionOutcomes, npm \in VersionOutcomes,
             os \in VersionOutcomes :
            EnvironmentResourceCall(r, node, npm, os)
  \/ Discard

SpecEnv == Init /\ [][NextEnv]_vars

(* the lower-case form of a name, for the comparison without case *)
ToLowerCase(s) ==
  [i \in 1..Len(s) |->
     IF \E k \in 1..26 : UpperLetters[k] = s[i]
     THEN LowerLetters[CHOOSE k \in 1..26 : UpperLetters[k] = s[i]]
     ELSE s[i]]

SensitiveWords ==
  { <<"t","o","k","e","n">>, <<"k","e","y">>, <<"s","e","c","r","e","t">>,
    <<"p","a","s","s","w","o","r","d">>,
    <<"c","r","e","d","e","n","t","i","a","l">>, <<"a","u","t","h">> }

NameIsSensitive(name) ==
  \E w \in SensitiveWords : Includes(ToLowerCase(name), w)

EnvDone == pc = "done" /\ req.tool = "environmentResource"

(* C14, as stated: every variable of the environment with a sensitive   *)
(* name has the value "[REDACTED]" in the snapshot, and two              *)
(* environments that differ only in the values of such variables yield   *)
(* identical snapshots.                                                   *)
C14_SensitiveValuesNeverShow ==
  EnvDone =>
    /\ \A n \in DOMAIN req.env :
         NameIsSensitive(n)
           => (n \in DOMAIN resp.arg.env /\ resp.arg.env[n] = Redacted)
    /\ \A n \in DOMAIN req.env : \A v \in EnvValues :
         NameIsSensitive(n)
           => filteredEnv([req.env EXCEPT ![n] = v]) = resp.arg.env

(* C14, amended: a variable with an empty value is left out of the      *)
(* snapshot whatever its name; every variable with a sensitive name and  *)
(* a non-empty value is shown as "[REDACTED]", every other non-empty     *)
(* variable with its value; and two environments that differ only in     *)
(* the non-empty values of sensitive variables yield the same snapshot.  *)
C14_NonEmptySensitiveValuesRedacted ==
  EnvDone =>
    /\ ~resp.isError
    /\ DOMAIN resp.arg.env = {n \in DOMAIN req.env : req.env[n] # <<>>}
    /\ \A n \in DOMAIN resp.arg.env :
         resp.arg.env[n] = IF NameIsSensitive(n) THEN Redacted ELSE req.env[n]
    /\ \A n \in DOMAIN req.env : \A v \in EnvValues \ {<<>>} :
         (NameIsSensitive(n) /\ req.env[n] # <<>>)
           => filteredEnv([req.env EXCEPT ![n] = v]) = resp.arg.env

C14_Witness ==
  /\ EnvDone
  /\ Cardinality(DOMAIN req.env) >= 3
  /\ \E n \in DOMAIN req.env :
       NameIsSensitive(n) /\ req.env[n] = <<"v">> /\ resp.arg.env[n] = Redacted
  /\ \E n \in DOMAIN resp.arg.env :
       ~NameIsSensitive(n) /\ resp.arg.env[n] = <<"v">>

(* C15: every handler returns a response envelope and lets no exception *)
(* escape; every failure of the validator, the executor or the file      *)
(* system layer is rendered with isError: true and every success         *)
(* without it.  Stated for the searchGlob tool: the response is an       *)
(* error exactly when the pattern was refused or the search failed.      *)
C15_FailuresAreErrorsSuccessesAreNot ==
  (pc = "done" /\ req.tool = "searchGlob") =>
    /\ resp.kind # "none"
    /\ resp.isError <=> \/ IsBlank(req.pattern)
                        \/ proc.kind # "exit"
                        \/ proc.code # 0
                        \/ proc.find # 0

---------------------------------------------------------------------------
(* Properties of the executor.                                             *)

BashDone == pc = "done" /\ req.tool = "bash" /\ proc # NoOutcome

(* C16: whenever a spawned command runs longer than the effective       *)
(* timeout, the process is terminated and the call returns an error      *)
(* classified as Timeout (the timed-out message), not as a generic        *)
(* process failure and not as a success.                                  *)
C16_TimeoutIsReportedAsTimeout ==
  (BashDone /\ proc.kind = "timeout")
    => (resp.isError /\ resp.kind = "TimedOut")

(* C17: no bash call returns a success whose stdout is larger than the  *)
(* effective maxOutputBytes; when the captured output exceeds the cap    *)
(* the process is terminated and the call returns an error classified    *)
(* as output-truncated (the execution error that names maxBuffer).        *)
C17_OutputOverCapIsTruncationError ==
  BashDone =>
    /\ ~resp.isError => Len(resp.arg) <= io[1].options.maxBuffer
    /\ proc.kind = "maxBuffer"
         => (resp.isError /\ resp.kind = "ExecutionError"
               /\ resp.arg = "maxBuffer")

(* C18: a command that exits with status 0 is reported as success with  *)
(* its standard output returned verbatim, neither trimmed nor            *)
(* reformatted, whether or not it wrote to standard error.                *)
C18_ExitZeroIsSuccessVerbatim ==
  (BashDone /\ proc.kind = "exit" /\ proc.code = 0)
    => (~resp.isError /\ resp.kind = "Success" /\ resp.arg = proc.stdout)

C18_Witness ==
  /\ BashDone
  /\ proc.kind = "exit"
  /\ proc.code = 0
  /\ proc.stderr = <<"w">>
  /\ proc.stdout = <<"o", "k", "\n">>
  /\ ~resp.isError
  /\ resp.arg = <<"o", "k", "\n">>

ResourcePath == IF req.path = <<>> THEN <<>> ELSE req.path[1]

FileResourceDone == pc = "done" /\ req.tool = "fileResource"

DirectoryResourceDone == pc = "done" /\ req.tool = "directoryResource"

(* C19: the passive resources are the same logic as the operations: the *)
(* file resource returns the text or the error of readFile(path) with no *)
(* offset and limit, the directory resource the entries or the error of  *)
(* listFiles(path); a failing stat of a child is tolerated as an entry,  *)
(* and a path that is missing, does not exist or is not a directory is   *)
(* answered with isError: true.                                           *)
C19_ResourcesAreTheOperations ==
  /\ FileResourceDone =>
       LET r == readFile(disk, ResourcePath, <<>>, <<>>)
       IN  resp = Response(~r.ok, r.kind, r.value)
  /\ DirectoryResourceDone =>
       LET r == listFiles(disk, ResourcePath)
       IN  /\ resp = Response(~r.ok, r.kind, r.value)
           /\ (Entry(disk, StripSlash(ResourcePath)).kind # "dir")
                => resp.isError
           /\ (/\ Entry(disk, StripSlash(ResourcePath)).kind = "dir"
               /\ Entry(disk, StripSlash(ResourcePath)).readable)
                => (/\ ~resp.isError
                    /\ Len(resp.arg)
                         = Cardinality(ChildrenOf(disk, StripSlash(ResourcePath))))

C19_Witness ==
  /\ DirectoryResourceDone
  /\ ~resp.isError
  /\ Len(resp.arg) = 2
  /\ DOMAIN resp.arg[2] = ErrorEntryFields
  /\ resp = ListFilesTool(disk, req.path[1])

---------------------------------------------------------------------------
(* The think and codeReview tools, and all tools side by side.             *)

(* the think tool without its input check *)
ThinkTool_NoCheck(thought) == Response(FALSE, "Thought", thought)

(* the think tool handler *)
ThinkTool(thought) ==
  IF IsBlank(thought) THEN Response(TRUE, "EmptyThought", <<>>)
  ELSE Response(FALSE, "Thought", thought)

(* the codeReview tool handler: a fixed text for every code *)
CodeReviewTool(code) ==
  IF IsBlank(code) THEN Response(TRUE, "EmptyCode", <<>>)
  ELSE Response(FALSE, "ReviewPlaceholder", <<>>)

(* texts for a required string: empty, white space only, and others *)
Strings == {<<>>, <<" ">>, <<"\t", "\n">>, <<" ", " ", " ">>, <<"a">>,
            <<" ", "a">>}

ThinkRequests == [tool : {"think"}, thought : Strings]

CodeReviewRequests == [tool : {"codeReview"}, code : Strings]

ToolBashRequests ==
  [tool : {"bash"}, command : Strings \cup {<<"l", "s">>},
   timeout : {<<>>}, max_output : {<<>>}, allow_network : {<<>>}]

ToolReadRequests ==
  [tool : {"readFile"}, file_path : Strings \cup {PathA},
   offset : {<<>>}, limit : {<<>>, <<1>>}]

ToolListRequests == [tool : {"listFiles"}, path : Strings \cup {DirPath}]

ToolGlobRequests ==
  [tool : {"searchGlob"}, pattern : Strings, path : {<<>>, <<DirPath>>}]

ToolGrepRequests ==
  [tool : {"grep"}, pattern : Strings, path : {<<>>, <<DirPath>>},
   include : {<<>>}]

ToolEditRequests ==
  [tool : {"editFile"}, file_path : Strings \cup {PathA, PathNew, DirPath},
   content : {<<>>, << <<>> >>, << <<"a", "\n">> >>}]

(* a call of the think tool *)
ThinkCall(r) ==
  /\ pc = "idle"
  /\ req' = r
  /\ pc' = "done"
  /\ resp' = ThinkTool(r.thought)
  /\ io' = <<>>
  /\ UNCHANGED <<proc, disk>>

(* a call of the codeReview tool *)
CodeReviewCall(r) ==
  /\ pc = "idle"
  /\ req' = r
  /\ pc' = "done"
  /\ resp' = CodeReviewTool(r.code)
  /\ io' = <<>>
  /\ UNCHANGED <<proc, disk>>

InitTools ==
  /\ pc = "idle"
  /\ req = NoRequest
  /\ io = <<>>
  /\ resp = NoResponse
  /\ proc = NoOutcome
  /\ disk \in {EmptyDisk,
               FsDisk(FsEntry("dir", TRUE, TRUE, <<>>),
                      FsEntry("file", TRUE, TRUE, <<"a", "\n", "a">>), <<>>)}

NextTools ==
  \/ pc = "idle" /\ \E r \in ToolBashRequests : BashCall(r)
  \/ /\ pc = "running"
     /\ req.tool = "bash"
     /\ \E o \in ExecOutcomes(io[1].options) : BashExit(o)
  \/ pc = "idle" /\ \E r \in ToolReadRequests : ReadFileCall(r)
  \/ pc = "idle" /\ \E r \in ToolListRequests : ListFilesCall(r)
  \/ pc = "idle" /\ \E r \in ToolGlobRequests : GlobCall(r)
  \/ /\ pc = "running"
     /\ req.tool = "searchGlob"
     /\ \E o \in GlobOutcomes(disk, req.pattern, req.path) : GlobExit(o)
  \/ pc = "idle" /\ \E r \in ToolGrepRequests : GrepCall(r)
  \/ pc = "running" /\ req.tool = "grep" /\ \E o \in GrepOutcomes : GrepExit(o)
  \/ pc = "idle" /\ \E r \in ThinkRequests : ThinkCall(r)
  \/ pc = "idle" /\ \E r \in CodeReviewRequests : CodeReviewCall(r)
  \/ pc = "idle" /\ \E r \in ToolEditRequests : EditFileCall(r)
  \/ Discard

SpecTools == InitTools /\ [][NextTools]_vars

(* the required string argument of the call *)
RequiredString ==
  CASE req.tool = "bash" -> req.command
    [] req.tool = "readFile" -> req.file_path
    [] req.tool = "listFiles" -> req.path
    [] req.tool = "searchGlob" -> req.pattern
    [] req.tool = "grep" -> req.pattern
    [] req.tool = "think" -> req.thought
    [] req.tool = "codeReview" -> req.code
    [] req.tool = "editFile" -> req.file_path

WhiteSpaceOnly(s) == \A i \in 1..Len(s) : s[i] \in WhiteSpace

(* C20: every tool rejects an empty or white-space-only required string *)
(* (command, file_path, path, pattern, thought, code; a missing one is   *)
(* falsy like the empty string) with isError: true before any process is *)
(* spawned or any file is read or written; editFile with an empty        *)
(* file_path writes nothing, and editFile with a path that can be        *)
(* written (a new file in a new directory) and empty content succeeds    *)
(* and creates an empty file.                                             *)
C20_BlankRequiredInputRejected ==
  /\ (pc \in {"running", "done"} /\ WhiteSpaceOnly(RequiredString))
       => (/\ pc = "done"
           /\ resp.isError
           /\ io = <<>>
           /\ proc = NoOutcome)
  /\ (/\ pc = "done"
      /\ req.tool = "editFile"
      /\ ~WhiteSpaceOnly(req.file_path)
      /\ req.content = << <<>> >>)
       => /\ req.file_path = PathNew => ~resp.isError
          /\ ~resp.isError
               => (/\ Entry(disk, req.file_path).kind = "file"
                   /\ Entry(disk, req.file_path).content = <<>>)

C20_Witness ==
  /\ pc = "done"
  /\ req.tool = "editFile"
  /\ req.file_path = PathNew
  /\ req.content = << <<>> >>
  /\ ~resp.isError
  /\ disk[PathNew].content = <<>>

---------------------------------------------------------------------------
(* The line slice of readFile.                                             *)

(* lines first..last (1-based, inclusive) of a text, joined with newlines *)
LinesOf(text, first, last) ==
  JoinLines([i \in 1..(last - first + 1) |-> SplitLines(text)[first + i - 1]])

(* C21: for a readable file of L lines (the content split on newline), an *)
(* offset o that is absent or within 1..L and a limit n that is absent or *)
(* at least 1, readFile succeeds and returns the lines [start, end)       *)
(* joined with newline, where start = o - 1 if an offset is given, else   *)
(* 0, and end = min(L, start + n) if a limit is given, else L; when       *)
(* neither is given the content is returned unchanged.                    *)
C21_ReturnsRequestedLineSlice ==
  (/\ ReadsReadableFile
   /\ req.offset = <<>> \/ req.offset[1] \in 1..LineCount(disk[req.file_path].content)
   /\ req.limit = <<>> \/ req.limit[1] >= 1)
    => LET text  == disk[req.file_path].content
           L     == LineCount(text)
           start == IF req.offset = <<>> THEN 0 ELSE req.offset[1] - 1
           end   == IF req.limit = <<>> THEN L
                    ELSE IF start + req.limit[1] < L THEN start + req.limit[1]
                    ELSE L
       IN  /\ ~resp.isError
           /\ resp.arg = IF req.offset = <<>> /\ req.limit = <<>> THEN text
                         ELSE LinesOf(text, start + 1, end)

(* a slice that starts after the first line and stops before the last *)
C21_Witness ==
  /\ ReadsReadableFile
  /\ LineCount(disk[req.file_path].content) = 4
  /\ req.offset = <<2>>
  /\ req.limit = <<2>>
  /\ ~resp.isError
  /\ resp.arg = <<"\n">>

(* C22: listFiles tells its two precondition failures apart: a path that *)
(* does not exist is answered with the not-found (not accessible) error,  *)
(* and a path that exists but is a regular file is answered with the      *)
(* not-a-directory error, never with the not-found error.                 *)
C22_NotADirectoryIsDistinguished ==
  (/\ pc = "done"
   /\ req.tool = "listFiles"
   /\ ~IsBlank(req.path))
    => /\ Entry(disk, StripSlash(req.path)).kind = "none"
            => resp.isError /\ resp.kind = "NotAccessible"
       /\ (Entry(disk, req.path).kind = "file" /\ Stat(disk, req.path).ok)
            => resp.isError /\ resp.kind = "NotADirectory"

---------------------------------------------------------------------------
(* The three probes of the environment snapshot.                           *)

(* the probe io[i] of the snapshot failed *)
ProbeFailed(i) == ~(io[i].outcome.kind = "exit" /\ io[i].outcome.code = 0)

(* the text a probe collected: its standard output without the final    *)
(* line break                                                             *)
Collected(i) ==
  LET out == io[i].outcome.stdout
  IN  IF Len(out) > 0 /\ out[Len(out)] = "\n"
      THEN SubSeq(out, 1, Len(out) - 1) ELSE out

(* C24: the environment snapshot never fails as a whole because a data   *)
(* point cannot be collected: for every subset of the three probes       *)
(* (node --version, npm --version, uname -a) that fails, the resource    *)
(* answers with a success in which every failed data point holds its      *)
(* placeholder ("unknown", or the os-module text for the OS) and every    *)
(* successful one holds the value collected.                              *)
C24_FailedProbesFallBack ==
  EnvDone =>
    /\ ~resp.isError
    /\ resp.arg.node = IF ProbeFailed(1) THEN Unknown ELSE Collected(1)
    /\ resp.arg.npm  = IF ProbeFailed(2) THEN Unknown ELSE Collected(2)
    /\ resp.arg.os   = IF ProbeFailed(3) THEN OsFallback ELSE Collected(3)

(* the first and the third probe fail, the second succeeds *)
C24_Witness ==
  /\ EnvDone
  /\ ProbeFailed(1)
  /\ ~ProbeFailed(2)
  /\ ProbeFailed(3)
  /\ ~resp.isError
  /\ resp.arg.node = Unknown
  /\ resp.arg.npm = <<"v", "1">>
  /\ resp.arg.os = OsFallback

(* C25: every failed execution is classified by its cause: a process     *)
(* that exits with a nonzero status yields the execution error of a      *)
(* failed process (with its exit code and stderr), a process ended by a  *)
(* signal yields the execution error of a signaled process, and neither  *)
(* is reported as the other, as a timeout or as truncated output.        *)
C25_FailuresClassifiedByCause ==
  BashDone =>
    /\ (proc.kind = "exit" /\ proc.code # 0)
         => (resp.isError /\ resp.kind = "ExecutionError" /\ resp.arg = "exit")
    /\ proc.kind = "signal"
         => (resp.isError /\ resp.kind = "ExecutionError" /\ resp.arg = "signal")

---------------------------------------------------------------------------
(* Concurrent calls of the bash tool.  The server runs handlers on one    *)
(* event loop: a handler runs from its entry to its first await without  *)
(* interruption, and other calls may run between that and the moment the  *)
(* child process settles.  Here pc, req, io, resp and proc hold one value *)
(* for each call in flight.                                               *)

MaxCalls == 2

Calls == 1..MaxCalls

ConcRequests ==
       [tool : {"bash"},
        command : {<<"l","s">>, <<"n","c">>, <<"i","p">>},
        timeout : {<<>>}, max_output : {<<>>},
        allow_network : {<<>>, <<TRUE>>}]
  \cup [tool : {"bash"}, command : {<<"l","s">>},
        timeout : {<<MAX_TIMEOUT + 1>>}, max_output : {<<>>},
        allow_network : {<<>>}]

InitConc ==
  /\ pc = [c \in Calls |-> "idle"]
  /\ req = [c \in Calls |-> NoRequest]
  /\ io = [c \in Calls |-> <<>>]
  /\ resp = [c \in Calls |-> NoResponse]
  /\ proc = [c \in Calls |-> NoOutcome]
  /\ disk = EmptyDisk

(* call c of the bash tool up to its first await *)
ConcBashCall(c, r) ==
  /\ pc[c] = "idle"
  /\ req' = [req EXCEPT ![c] = r]
  /\ LET v == BashValidate(r.command, r.allow_network)
     IN  IF v.kind = "Accept"
         THEN /\ pc' = [pc EXCEPT ![c] = "running"]
              /\ io' = [io EXCEPT ![c] =
                          << [op      |-> "exec",
                              command |-> r.command,
                              options |-> ExecOptions(
                                            <<validatedTimeout(r.timeout)>>,
                                            <<validatedMaxOutput(r.max_output)>>)] >>]
              /\ resp' = [resp EXCEPT ![c] = NoResponse]
         ELSE /\ pc' = [pc EXCEPT ![c] = "done"]
              /\ io' = [io EXCEPT ![c] = <<>>]
              /\ resp' = [resp EXCEPT ![c] = Response(TRUE, v.kind, v.arg)]
  /\ UNCHANGED <<proc, disk>>

(* the handler that runs the command once more when it failed *)
ConcBashExit_Retry(c, outcome) ==
  /\ pc[c] = "running"
  /\ outcome \in ExecOutcomes(io[c][1].options)
  /\ IF (outcome.kind = "exit" /\ outcome.code = 0) \/ Len(io[c]) > 1
     THEN /\ pc' = [pc EXCEPT ![c] = "done"]
          /\ resp' = [resp EXCEPT ![c] =
                        BashRespond(req[c].command, req[c].timeout, outcome)]
          /\ proc' = [proc EXCEPT ![c] = outcome]
          /\ UNCHANGED <<req, io, disk>>
     ELSE /\ io' = [io EXCEPT ![c] = io[c] \o <<io[c][1]>>]
          /\ proc' = [proc EXCEPT ![c] = outcome]
          /\ UNCHANGED <<pc, req, resp, disk>>

(* the child process of call c settles and its handler returns *)
ConcBashExit(c, outcome) ==
  /\ pc[c] = "running"
  /\ outcome \in ExecOutcomes(io[c][1].options)
  /\ pc' = [pc EXCEPT ![c] = "done"]
  /\ resp' = [resp EXCEPT ![c] =
                BashRespond(req[c].command, req[c].timeout, outcome)]
  /\ proc' = [proc EXCEPT ![c] = outcome]
  /\ UNCHANGED <<req, io, disk>>

(* the response of call c is sent; nothing of the call is kept *)
ConcDiscard(c) ==
  /\ pc[c] = "done"
  /\ pc' = [pc EXCEPT ![c] = "idle"]
  /\ req' = [req EXCEPT ![c] = NoRequest]
  /\ io' = [io EXCEPT ![c] = <<>>]
  /\ resp' = [resp EXCEPT ![c] = NoResponse]
  /\ proc' = [proc EXCEPT ![c] = NoOutcome]
  /\ UNCHANGED disk

NextConc ==
  \/ \E c \in Calls : pc[c] = "idle" /\ \E r \in ConcRequests : ConcBashCall(c, r)
  \/ \E c \in Calls :
       pc[c] = "running"
         /\ \E o \in ExecOutcomes(io[c][1].options) : ConcBashExit(c, o)
  \/ \E c \in Calls : ConcDiscard(c)

SpecConc == InitConc /\ [][NextConc]_vars

(* the errors the checks of the handler return before anything is run *)
ValidationErrors ==
  {"EmptyCommand", "BannedCommand", "DangerousPattern", "CommandTooLong",
   "NetworkRequiresOptIn"}

(* call c was answered by validation *)
RejectedCall(c) ==
  pc[c] = "done" /\ resp[c].isError /\ resp[c].kind \in ValidationErrors

ValidationOutcome(c) ==
  IF RejectedCall(c) THEN [allow |-> FALSE, reason |-> resp[c].kind,
                           detail |-> resp[c].arg]
  ELSE [allow |-> TRUE, reason |-> "Accept", detail |-> io[c][1].options]

---------------------------------------------------------------------------
(* What reaches the process executor.                                      *)

(* C28: every command string that the bash tool hands to the process     *)
(* executor is non-blank and contains none of the characters ";", "&",   *)
(* "|", no pair of backticks and no "$(" ... ")" substitution.            *)
C28_ExecutedCommandsAreClean ==
  \A k \in 1..Len(io) :
    io[k].op = "exec" =>
      LET s == io[k].command
      IN  /\ \E i \in 1..Len(s) : s[i] \notin WhiteSpace
          /\ \A i \in 1..Len(s) : s[i] \notin {";", "&", "|"}
          /\ ~\E i, j \in 1..Len(s) :
                i < j /\ s[i] = Backtick /\ s[j] = Backtick
          /\ ~\E i, j \in 1..Len(s) :
                i + 1 < j /\ s[i] = "$" /\ s[i + 1] = "(" /\ s[j] = ")"

(* C29: the bash tool answers "Command timed out" only when the child    *)
(* process exceeded the effective timeout: a command that fails for      *)
(* another reason (a nonzero exit, a signal, too much output, options    *)
(* that exec refuses) is never reported as timed out, also when the      *)
(* command text, its stderr or the error message holds the word          *)
(* "timeout".                                                             *)
C29_TimedOutOnlyAfterTimeout ==
  (pc = "done" /\ req.tool = "bash" /\ resp.kind = "TimedOut")
    => proc.kind = "timeout"

(* C30: allow_network set to true relaxes the network check only: every  *)
(* command that is refused as empty, banned, dangerous or too long when  *)
(* allow_network is false or absent is refused with the same error, and  *)
(* not spawned, when allow_network is true.                               *)
C30_AllowNetworkRelaxesOnlyNetworkCheck ==
  (/\ req.tool = "bash"
   /\ req.allow_network = <<TRUE>>
   /\ pc \in {"running", "done"})
    => \A off \in {<<>>, <<FALSE>>} :
         LET v == BashValidate(req.command, off)
         IN  v.kind \in {"EmptyCommand", "BannedCommand", "DangerousPattern",
                         "CommandTooLong"}
               => (Rejected(v.kind) /\ resp.arg = v.arg)

(* a network command with a separator, called with allow_network true *)
C30_Witness ==
  /\ req.tool = "bash"
  /\ req.allow_network = <<TRUE>>
  /\ req.command = <<"i", "p", " ", ";">>
  /\ Rejected("DangerousPattern")

====
